---- MODULE Spec2Model ----
(***************************************************************************)
(* A model of the netbox-scripts repository: the renumbering scripts       *)
(* (renumber.py: GenerateNew, PruneIPs), the PNI provisioning script       *)
(* (add_pni.py: ConfigurePNI) and the decorators that wrap every run       *)
(* method (util/cancel_script.py, util/yaml_out.py, util/tags.py).         *)
(*                                                                         *)
(* The inventory store is the state: the Tag, Interface, IPAddress and     *)
(* VLAN tables.  Every script run is one action: NetBox runs a script      *)
(* inside one database transaction and either commits all of its writes    *)
(* or none of them.                                                        *)
(***************************************************************************)
EXTENDS Integers, Sequences, FiniteSets, TLC

VARIABLES
    tags,      \* Tag table: sequence of tag names (one entry per row)
    ifaces,    \* Interface table: sequence of interface records, pk = index
    ips,       \* IPAddress table: sequence of address records
    vlans,     \* VLAN table: sequence of [site, vid]
    providers, \* Provider table: sequence of provider names
    networks,  \* ProviderNetwork table: sequence of [provider, name]
    circuits,  \* Circuit table: sequence of [cid, provider, type], pk = index
    terms,     \* CircuitTermination table: sequence of [circuit, side]
    cables,    \* Cable table: sequence of [iface, circuit]
    last,      \* what the last script run did (job record, script.output, ...)
    callers    \* where each concurrent caller of lazy_load_tag stands

vars == <<tags, ifaces, ips, vlans, providers, networks, circuits, terms, cables, last,
          callers>>

----------------------------------------------------------------------------
(* Bounds of the model.                                                    *)

\* the number of workers that call lazy_load_tag at the same time
MaxCallers == 3
Callers == 1 .. MaxCallers

\* Highest address of the IPv4 target block (the block is 0..MaxAddr4).
MaxAddr4 == 3
\* Highest address of the IPv6 target block.
MaxAddr6 == 3
\* Generate is not started once more address rows than this are bound to
\* interfaces.
MaxIPs == 7

----------------------------------------------------------------------------
(* Generic helpers.                                                        *)

Min(S) == CHOOSE x \in S : \A y \in S : x <= y

Range(s) == {s[i] : i \in DOMAIN s}

RECURSIVE Pow2(_)
Pow2(n) == IF n = 0 THEN 1 ELSE 2 * Pow2(n - 1)

RECURSIVE SortedSeq(_)
\* the elements of a finite set of integers in ascending order
SortedSeq(S) == IF S = {} THEN <<>> ELSE <<Min(S)>> \o SortedSeq(S \ {Min(S)})

----------------------------------------------------------------------------
(* netaddr: IPNetwork and IPSet, as the scripts use them.                  *)
(* An IPNetwork is [value, hb]: the address it was built from and the      *)
(* number of host bits (32 - prefixlen for IPv4, 128 - prefixlen for       *)
(* IPv6).  prefixlen 31 / 127 is hb = 1, prefixlen 32 / 128 is hb = 0.     *)

\* the loop variable of `for cidr in ...` before the first iteration
Unbound == [value |-> -1, hb |-> -1]

\* IPNetwork.first: the value with the host bits cleared
NetFirst(n) == n.value - (n.value % Pow2(n.hb))

\* the addresses an IPNetwork covers
NetAddrs(n) == NetFirst(n) .. (NetFirst(n) + Pow2(n.hb) - 1)

\* IPNetwork.__getitem__: prefix[i]
NetIndex(n, i) == NetFirst(n) + i

\* prefix = copy(cidr); prefix.prefixlen = 31 (or 127): the value is kept
SetPtpLen(cidr) == [value |-> cidr.value, hb |-> 1]

\* the CIDR blocks (aligned, maximal) that make up a set of addresses
CidrSet(S) ==
    {c \in [value : S, hb : 0 .. Cardinality(S)] :
        /\ c.value % Pow2(c.hb) = 0
        /\ NetAddrs(c) \subseteq S
        /\ ~(NetAddrs([value |-> c.value, hb |-> c.hb + 1]) \subseteq S)}

\* IPSet.iter_cidrs(): the CIDR blocks in ascending order
iter_cidrs(S) ==
    LET cs == CidrSet(S)
        firsts == SortedSeq({c.value : c \in cs})
    IN  [i \in DOMAIN firsts |-> CHOOSE c \in cs : c.value = firsts[i]]

\* The value of the loop variable after
\*     for cidr in ips.iter_cidrs():
\*         if cidr.prefixlen < 32: break
\* `prev` is what the variable held before the loop.
ForBreak(cidrs, prev) ==
    IF cidrs = <<>> THEN prev
    ELSE LET hit == {i \in DOMAIN cidrs : cidrs[i].hb > 0}
         IN  IF hit = {} THEN cidrs[Len(cidrs)] ELSE cidrs[Min(hit)]

----------------------------------------------------------------------------
(* The inventory store.                                                    *)

\* Tag names are sequences of tokens, so that a semantic tag 'k=v' can be
\* built and split at the delimiter.
renumber == <<"renumber">>
l2ptp == <<"l2ptp">>
l3ptp == <<"l3ptp">>
new_ip == <<"new_ip">>
prune == <<"prune">>
NoTag == <<>>

\* the store a script run reads and writes
Store ==
    [tags |-> tags, ifaces |-> ifaces, ips |-> ips, vlans |-> vlans,
     providers |-> providers, networks |-> networks, circuits |-> circuits,
     terms |-> terms, cables |-> cables]

\* The Prefix table (the address blocks).  PrefixTable[id] is the row with
\* that id; the scripts never write it.
PrefixTable ==
    << [prefix |-> "10.0.0.0/24", family |-> 4, max |-> MaxAddr4,
        role |-> "pni-autogeneration-role"],
       [prefix |-> "2001:db8::/64", family |-> 6, max |-> MaxAddr6,
        role |-> "pni-autogeneration-role"] >>

\* Prefix.get_available_ips(): the block's addresses that no IPAddress row
\* of the block's family holds
get_available_ips(S, id) ==
    (0 .. PrefixTable[id].max) \
        {S.ips[i].val : i \in {j \in DOMAIN S.ips : S.ips[j].fam = PrefixTable[id].family}}

\* Tag.objects.filter(name=n): the rows with that name
TagRows(S, n) == {i \in DOMAIN S.tags : S.tags[i] = n}

\* Tag.objects.get(name=n) raises unless exactly one row matches
TagGetFails(S, n) == Cardinality(TagRows(S, n)) # 1

\* tag = Tag(name=n); tag.save()
TagSave(S, n) == [S EXCEPT !.tags = Append(@, n)]

\* IPAddress.objects.filter(interface=p): row indexes, in table order
IpRowsOf(S, p) == {i \in DOMAIN S.ips : S.ips[i].port = p}

RECURSIVE LexLess(_, _)
\* lexicographic order of sequences of integers
LexLess(a, b) ==
    IF a = <<>> THEN b # <<>>
    ELSE IF b = <<>> THEN FALSE
    ELSE IF Head(a) # Head(b) THEN Head(a) < Head(b)
    ELSE LexLess(Tail(a), Tail(b))

\* Interface ordering (device, name), then pk.  An interface name is a
\* sequence of numbers: <<1>> is eth1, <<1, 100>> is eth1.100.
IfaceBefore(S, i, j) ==
    LET ki == <<S.ifaces[i].device>> \o S.ifaces[i].name
        kj == <<S.ifaces[j].device>> \o S.ifaces[j].name
    IN  IF ki = kj THEN i < j ELSE LexLess(ki, kj)

RECURSIVE OrderIfaces(_, _)
\* a set of interface rows in the default ordering
OrderIfaces(S, ids) ==
    IF ids = {} THEN <<>>
    ELSE LET first == CHOOSE i \in ids : \A j \in ids \ {i} : IfaceBefore(S, i, j)
         IN  <<first>> \o OrderIfaces(S, ids \ {first})

\* Interface.objects.filter(tags=t), in the default ordering
IfacesTagged(S, t) ==
    OrderIfaces(S, {i \in DOMAIN S.ifaces : t \in S.ifaces[i].tags})

----------------------------------------------------------------------------
(* What a run method hands back: it returns a dict, raises CancelScript    *)
(* or raises something else.  S is the store as the method left it (the    *)
(* transaction is still open), `info` what the method did.                 *)

NoInfo == [processed |-> <<>>, deleted |-> <<>>, cleared |-> <<>>,
           avail4 |-> {}, avail6 |-> {}, started |-> FALSE, scanned |-> FALSE,
           target |-> 0, targetHad |-> 0, exhausted |-> FALSE,
           fam4 |-> 0, fam6 |-> 0]

Returns(S, ret, info) ==
    [exc |-> "none", msg |-> "", ret |-> ret, S |-> S, info |-> info]

\* raise CancelScript(msg)
Cancels(S, msg, info) ==
    [exc |-> "CancelScript", msg |-> msg, ret |-> <<>>, S |-> S, info |-> info]

\* any other exception, named by its class
Faults(S, name, info) ==
    [exc |-> name, msg |-> "", ret |-> <<>>, S |-> S, info |-> info]

----------------------------------------------------------------------------
(* renumber.py: GenerateNew                                                *)

\* The three shapes of a prefix parameter: a Prefix object (the form), an
\* int (looked up by id) or a str (looked up by prefix).
PrefixObj(id) == [t |-> "obj", id |-> id, s |-> ""]
PrefixInt(id) == [t |-> "int", id |-> id, s |-> ""]
PrefixStr(s) == [t |-> "str", id |-> 0, s |-> s]

\* get_ips: [exc, msg, ips, family].  dneBound says whether the name
\* DoesNotExist of the except clause is bound in the module (it is not
\* imported by name; it is bound only if `from extras.scripts import *`
\* provides it, otherwise the except clause itself raises NameError).
get_ips(S, in_prefix, family, dneBound) ==
    LET found == {i \in DOMAIN PrefixTable : PrefixTable[i].prefix = in_prefix.s}
        ok(id) == [exc |-> "none", msg |-> "", ips |-> get_available_ips(S, id),
                   family |-> PrefixTable[id].family]
        bad(e, m) == [exc |-> e, msg |-> m, ips |-> {}, family |-> family]
    IN  IF in_prefix.t = "int" THEN
            IF in_prefix.id \notin DOMAIN PrefixTable THEN
                IF dneBound THEN bad("CancelScript", "Prefix id not found in Netbox")
                ELSE bad("NameError", "")
            ELSE IF PrefixTable[in_prefix.id].family # family THEN
                bad("CancelScript", "Prefix id: address family mismatch")
            ELSE ok(in_prefix.id)
        ELSE IF in_prefix.t = "str" THEN
            IF found = {} THEN bad("CancelScript", "Prefix not found in Netbox")
            ELSE IF Cardinality(found) # 1 THEN bad("AssertionError", "")
            ELSE IF PrefixTable[Min(found)].family # family THEN
                bad("CancelScript", "Prefix: address family mismatch")
            ELSE ok(Min(found))
        ELSE ok(in_prefix.id)

\* an IPAddress row
IpRow(fam, val, hb, port, tagset) ==
    [fam |-> fam, val |-> val, hb |-> hb, port |-> port, tags |-> tagset]

\* faulty variant of TagForRemoval: the old addresses are not tagged
NoTagForRemoval(S, i) == S

\* for ip in IPAddress.objects.filter(interface=i): ip.tags.add(prune)
TagForRemoval(S, i) ==
    [S EXCEPT !.ips = [k \in DOMAIN S.ips |->
        IF S.ips[k].port = i THEN [S.ips[k] EXCEPT !.tags = @ \cup {prune}]
        ELSE S.ips[k]]]

\* faulty variant of create_ips: no address row is created
create_ips_nothing(S, iface, addrs, new_tag) ==
    [S EXCEPT !.ifaces[iface].tags = IF addrs = <<>> THEN @ ELSE @ \ {renumber}]

\* faulty variant of create_ips: the renumber tag stays on the interface
create_ips_keeps_mark(S, iface, addrs, new_tag) ==
    [S EXCEPT
        !.ips = @ \o [k \in DOMAIN addrs |->
                    [fam |-> addrs[k].fam, val |-> addrs[k].val, hb |-> addrs[k].hb,
                     port |-> iface, tags |-> {new_tag, new_ip}]]]

\* create_ips(iface, addrs): one new row per address, tagged new_tag and
\* new_ip, and the renumber tag taken off the interface.  addrs is a
\* sequence of [fam, val, hb].
create_ips(S, iface, addrs, new_tag) ==
    [S EXCEPT
        !.ips = @ \o [k \in DOMAIN addrs |->
                    IpRow(addrs[k].fam, addrs[k].val, addrs[k].hb, iface, {new_tag, new_ip})],
        !.ifaces[iface].tags = IF addrs = <<>> THEN @ ELSE @ \ {renumber}]

\* lines 149-152: the two addresses of prefix4 ( prefix4[0], prefix4[1] ),
\* each with the prefix length of prefix4
PtpPair(fam, prefix) ==
    << [fam |-> fam, val |-> NetIndex(prefix, 0), hb |-> prefix.hb],
       [fam |-> fam, val |-> NetIndex(prefix, 1), hb |-> prefix.hb] >>

\* lines 169-176: the addresses interface i has before the run creates any
OldIps(S, i) ==
    [k \in 1 .. Cardinality(IpRowsOf(S, i)) |-> S.ips[SortedSeq(IpRowsOf(S, i))[k]]]

\* lines 165-208 for a pair whose subnets are new4 and new6: out gets an
\* entry per port, the old addresses are tagged for removal, the new ones
\* created (the first of each subnet on the interface, the second on its
\* peer), and the subnets leave the two NetSets.
AssignPair(a, interface, peer_iface, new_tag, cidr4, cidr6, new4, new6) ==
    [a EXCEPT
        !.S = create_ips(
                  create_ips(TagForRemoval(TagForRemoval(a.S, interface), peer_iface),
                             interface, <<new4[1], new6[1]>>, new_tag),
                  peer_iface, <<new4[2], new6[2]>>, new_tag),
        !.ips4 = @ \ NetAddrs(SetPtpLen(cidr4)),
        !.ips6 = @ \ NetAddrs(SetPtpLen(cidr6)),
        !.cidr4 = cidr4,
        !.cidr6 = cidr6,
        !.out = {e \in @ : e.port \notin {interface, peer_iface}} \cup
                {[port |-> interface, added |-> <<new4[1], new6[1]>>,
                  old_ips |-> OldIps(a.S, interface)],
                 [port |-> peer_iface, added |-> <<new4[2], new6[2]>>,
                  old_ips |-> OldIps(a.S, peer_iface)]},
        !.processed = Append(@, [primary |-> interface, peer |-> peer_iface,
                                 new_tag |-> new_tag,
                                 net4 |-> NetAddrs(SetPtpLen(cidr4)),
                                 net6 |-> NetAddrs(SetPtpLen(cidr6)),
                                 new4 |-> new4, new6 |-> new6]),
        !.updated = TRUE]

\* lines 148-163 once the two for loops have left cidr4 and cidr6:
\* copy(cidr4) raises if the loop variable was never bound, else the copy
\* gets prefix length 31 (127)
SelectPair(a, interface, peer_iface, new_tag, cidr4, cidr6) ==
    IF cidr4 = Unbound \/ cidr6 = Unbound THEN [a EXCEPT !.exc = "UnboundLocalError"]
    ELSE AssignPair(a, interface, peer_iface, new_tag, cidr4, cidr6,
                    PtpPair(a.fam4, SetPtpLen(cidr4)), PtpPair(a.fam6, SetPtpLen(cidr6)))

\* The body of the interface loop for a pair that is to be renumbered.
\* `a` is the state of the run: the store, the two NetSets, the loop
\* variables cidr4 and cidr6, scanned_ids, out, updated.
RenumberPair(a, interface, peer_iface, new_tag) ==
    SelectPair(a, interface, peer_iface, new_tag,
               ForBreak(iter_cidrs(a.ips4), a.cidr4),
               ForBreak(iter_cidrs(a.ips6), a.cidr6))

\* faulty variant of AlreadyScanned: the deduplication test never fires
NeverScanned(scanned_ids, peer) == FALSE

\* has the peer been scanned already?
AlreadyScanned(scanned_ids, peer) == peer \in Range(scanned_ids)

\* one iteration of `for interface in Interface.objects.filter(tags=renumber)`
ScanInterface(a, interface) ==
    LET a1 == [a EXCEPT !.scanned_ids = Append(@, interface)]
        itags == a.S.ifaces[interface].tags
        new_tag == IF l2ptp \in itags THEN l2ptp
                   ELSE IF l3ptp \in itags THEN l3ptp ELSE NoTag
        peer_iface == a.S.ifaces[interface].peer
    IN  IF new_tag = NoTag THEN a1
        ELSE IF peer_iface = 0 THEN a1
        ELSE IF AlreadyScanned(a1.scanned_ids, peer_iface) THEN a1
        ELSE RenumberPair(a1, interface, peer_iface, new_tag)

RECURSIVE ScanAll(_, _, _)
\* the whole loop over the interfaces selected when the loop started
ScanAll(a, order, k) ==
    IF k > Len(order) \/ a.exc # "none" THEN a
    ELSE ScanAll(ScanInterface(a, order[k]), order, k + 1)

\* load or create a tag, as GenerateNew does for new_ip and prune
LoadOrCreate(S, name) == IF TagRows(S, name) # {} THEN S ELSE TagSave(S, name)

\* lines 120-123: the run state when the interface loop starts
ScanStart(S, r4, r6) ==
    [exc |-> "none", S |-> S, ips4 |-> r4.ips, ips6 |-> r6.ips,
     fam4 |-> r4.family, fam6 |-> r6.family,
     cidr4 |-> Unbound, cidr6 |-> Unbound,
     scanned_ids |-> <<>>, out |-> {}, processed |-> <<>>, updated |-> FALSE]

\* lines 120-210: the loop, over the queryset as it is when the loop starts
ScanFrom(a) == ScanAll(a, IfacesTagged(a.S, renumber), 1)

\* what the run did, for the record of the run
GenerateInfo(r4, r6, a) ==
    [NoInfo EXCEPT !.processed = a.processed,
                   !.avail4 = r4.ips, !.avail6 = r6.ips,
                   !.fam4 = r4.family, !.fam6 = r6.family,
                   !.started = TRUE,
                   !.scanned = (a.exc = "none")]

\* lines 212-221: how the run ends once the loop has left `a`
GenerateEnd(r4, r6, a) ==
    IF a.exc # "none" THEN Faults(a.S, a.exc, GenerateInfo(r4, r6, a))
    ELSE IF ~a.updated THEN
        Cancels(a.S, "No eligible interfaces marked for renumbering.",
                GenerateInfo(r4, r6, a))
    ELSE Returns(a.S, [result |-> TRUE, comment |-> "renumber process completed.",
                       out |-> a.out], GenerateInfo(r4, r6, a))

\* lines 88-118 and on: the two get_ips calls, then new_ip and prune are
\* loaded or created, then the loop
GenerateFrom(S, r4, r6) ==
    IF r4.exc = "CancelScript" THEN Cancels(S, r4.msg, NoInfo)
    ELSE IF r4.exc # "none" THEN Faults(S, r4.exc, NoInfo)
    ELSE IF r6.exc = "CancelScript" THEN Cancels(S, r6.msg, NoInfo)
    ELSE IF r6.exc # "none" THEN Faults(S, r6.exc, NoInfo)
    ELSE GenerateEnd(r4, r6,
             ScanFrom(ScanStart(LoadOrCreate(LoadOrCreate(S, new_ip), prune), r4, r6)))

\* GenerateNew.run (the method under its decorators)
GenerateNew(S, data, dneBound) ==
    IF \E t \in {renumber, l2ptp, l3ptp} : TagGetFails(S, t) THEN
        Faults(S, "DoesNotExist", NoInfo)
    ELSE GenerateFrom(S, get_ips(S, data.ipv4_prefix, 4, dneBound),
                         get_ips(S, data.ipv6_prefix, 6, dneBound))

----------------------------------------------------------------------------
(* renumber.py: PruneIPs                                                   *)

\* faulty variant of DeletePruned: every address row is deleted
DeleteEvery(S) == [S EXCEPT !.ips = <<>>]

\* for ip in IPAddress.objects.filter(tags=prune): ip.delete()
DeletePruned(S) ==
    LET Keep(r) == prune \notin r.tags IN [S EXCEPT !.ips = SelectSeq(@, Keep)]

\* faulty variant of ClearNew: the new_ip tags stay
ClearNothing(S) == S

\* for ip in IPAddress.objects.filter(tags=new_ip): ip.tags.remove(new_ip)
ClearNew(S) ==
    [S EXCEPT !.ips = [k \in DOMAIN S.ips |-> [S.ips[k] EXCEPT !.tags = @ \ {new_ip}]]]

\* PruneIPs.run (the method under its decorator)
PruneIPs(S) ==
    LET Pruned(r) == prune \in r.tags
        New(r) == new_ip \in r.tags
        S1 == DeletePruned(S)
        S2 == ClearNew(S1)
        deleted == SelectSeq(S.ips, Pruned)
        cleared == SelectSeq(S1.ips, New)
        out == [deleted |-> deleted, new_tag_cleared |-> cleared]
    IN  IF TagGetFails(S, prune) \/ TagGetFails(S, new_ip) THEN
            Faults(S, "DoesNotExist", NoInfo)
        ELSE Returns(S2, [result |-> TRUE, comment |-> "IP addresses pruned", out |-> out],
                     [NoInfo EXCEPT !.deleted = deleted, !.cleared = cleared])

----------------------------------------------------------------------------
(* util/tags.py                                                            *)

\* KV delimiter used in semantic tags
DELIMITER == "="

\* faulty variant of lazy_load_tag: a tag is saved without looking for
\* one of that name
lazy_load_tag_saves(S, name) == TagSave(S, name)

\* lazy_load_tag(name): the store with the tag in it (the tag is its name)
lazy_load_tag(S, name) == IF TagRows(S, name) # {} THEN S ELSE TagSave(S, name)

\* the name f'{k}{DELIMITER}{v}' of a semantic tag
SemanticName(k, v) == k \o <<DELIMITER>> \o v

\* make_semantic_tag(k, v)
make_semantic_tag(S, k, v) == lazy_load_tag(S, SemanticName(k, v))

\* a caller of lazy_load_tag: not in the function, after the query of
\* line 11 found no tag ("missing"), returned, or left by an exception
\* ("faulted")
Caller(pc, name) == [pc |-> pc, name |-> name]
NoCallers == [p \in Callers |-> Caller("idle", <<>>)]

RECURSIVE Split(_)
\* name.split(DELIMITER): the pieces between the delimiters
Split(name) ==
    IF DELIMITER \notin Range(name) THEN <<name>>
    ELSE LET i == Min({j \in DOMAIN name : name[j] = DELIMITER})
         IN  <<SubSeq(name, 1, i - 1)>> \o Split(SubSeq(name, i + 1, Len(name)))

\* parse_semantic_tags(tags): the dict comprehension over the tags whose
\* name has the delimiter; of two tags with one key the later one stays
parse_semantic_tags(ts) ==
    LET sem == SelectSeq(ts, LAMBDA t : DELIMITER \in Range(t))
        keys == {Split(sem[i])[1] : i \in DOMAIN sem}
        lastOf(key) == CHOOSE i \in DOMAIN sem :
                           /\ Split(sem[i])[1] = key
                           /\ \A j \in DOMAIN sem : Split(sem[j])[1] = key => j <= i
    IN  [key \in keys |-> Split(sem[lastOf(key)])[2]]

----------------------------------------------------------------------------
(* add_pni.py: ConfigurePNI                                                *)

L2ptpTag == l2ptp
PNICircuitTag == <<"pni:circuit">>
PNIConfiguredTag == <<"pni:configured">>
VlanVcidTagSuffix == <<"pni:vcid">>
PeerASNTagSuffix == <<"pni:asn">>

\* The devices and their sites: the scripts read them and never write
\* them.  CircuitTable is the Circuit table of a store in which one PNI
\* circuit and one transit circuit exist.
Devices == {1, 2}
SiteOf(device) == device
PNICircuitTypeSlug == "private-network-interconnect"
CircuitTable ==
    << [cid |-> "CID1", provider |-> "PeerA", type |-> PNICircuitTypeSlug],
       [cid |-> "CID2", provider |-> "PeerB", type |-> "transit"] >>

\* no value was supplied for an optional parameter
None == -1
NoAddr == [fam |-> 0, val |-> 0, hb |-> 0]

\* lines 386-403: the target interface, given as an object or as a device
\* name and an interface name
ResolveTarget(S, data) ==
    LET named == {i \in DOMAIN S.ifaces :
                    S.ifaces[i].device = data.device /\ S.ifaces[i].name = data.ifname}
    IN  IF ~data.byName THEN [exc |-> "none", interface |-> data.iface]
        ELSE IF data.device \notin Devices \/ named = {} THEN
            [exc |-> "CancelScript", interface |-> 0]
        ELSE IF Cardinality(named) > 1 THEN
            [exc |-> "MultipleObjectsReturned", interface |-> 0]
        ELSE [exc |-> "none", interface |-> Min(named)]

\* lines 421-425: is a supplied vlan_id accepted by `vlan_id not in range(1,4095)`
VlanInRange(vlan_id) == vlan_id \in 1 .. 4094

\* faulty variant of ResolveSubPort: a VLAN object and a sub-port are
\* created without looking for existing ones
ResolveSubPort_creates(S, interface, vlan_id) ==
    [S |-> [S EXCEPT
               !.vlans = Append(@, [site |-> SiteOf(S.ifaces[interface].device),
                                    vid |-> vlan_id]),
               !.ifaces = Append(@, [S.ifaces[interface] EXCEPT
                                        !.name = Append(S.ifaces[interface].name, vlan_id),
                                        !.type = "virtual", !.mode = "access",
                                        !.parent = interface, !.cable = 0,
                                        !.uvlan = Len(S.vlans) + 1, !.tags = {}])],
     interface |-> Len(S.ifaces) + 1, created |-> TRUE]

\* lines 431-462: the sub-port for (interface, vlan_id): the first interface
\* named <interface>.<vlan_id> if one exists, else a new one (and a new VLAN
\* object unless the site has one).  [S, interface]
ResolveSubPort(S, interface, vlan_id) ==
    LET vlan_name == Append(S.ifaces[interface].name, vlan_id)
        site == SiteOf(S.ifaces[interface].device)
        found == OrderIfaces(S, {i \in DOMAIN S.ifaces : S.ifaces[i].name = vlan_name})
        vrows == {k \in DOMAIN S.vlans : S.vlans[k] = [site |-> site, vid |-> vlan_id]}
        S1 == IF vrows = {} THEN [S EXCEPT !.vlans = Append(@, [site |-> site, vid |-> vlan_id])]
              ELSE S
        nb_vlan == IF vrows = {} THEN Len(S1.vlans) ELSE Min(vrows)
        vlan == [device |-> S.ifaces[interface].device, name |-> vlan_name,
                 type |-> "virtual", mode |-> "access", parent |-> interface, lag |-> 0,
                 peer |-> 0, cable |-> 0, uvlan |-> nb_vlan,
                 descr |-> [kind |-> "", peer |-> "", provider |-> "", cid |-> "", vcid |-> ""],
                 tags |-> {}]
    IN  IF found # <<>> THEN [S |-> S, interface |-> found[1], created |-> FALSE]
        ELSE [S |-> [S1 EXCEPT !.ifaces = Append(@, vlan)],
              interface |-> Len(S.ifaces) + 1, created |-> TRUE]

\* lines 481-483: the interface is cabled to one termination of a PNI circuit
WiredToPNI(S, interface) ==
    /\ S.ifaces[interface].cable \in DOMAIN S.circuits
    /\ S.circuits[S.ifaces[interface].cable].type = PNICircuitTypeSlug

\* lines 505-510: the prefixes of a family that have the autogeneration role
AutogenPrefixes(family) ==
    {i \in DOMAIN PrefixTable : PrefixTable[i].family = family
                                 /\ PrefixTable[i].role = "pni-autogeneration-role"}

\* lines 515-523 once the two for loops have left cidr4 and cidr6: the
\* first address of each, as a /31 and a /127.  [exc, msg, my_ipv4, my_ipv6]
AutogenFrom(cidr4, cidr6) ==
    IF cidr4 = Unbound \/ cidr6 = Unbound THEN
        [exc |-> "UnboundLocalError", msg |-> "", my_ipv4 |-> NoAddr, my_ipv6 |-> NoAddr]
    ELSE [exc |-> "none", msg |-> "",
          my_ipv4 |-> [fam |-> 4, val |-> NetIndex(cidr4, 0), hb |-> 1],
          my_ipv6 |-> [fam |-> 6, val |-> NetIndex(cidr6, 0), hb |-> 1]]

\* lines 501-523: the local addresses autogeneration picks
Autogenerate(S) ==
    IF AutogenPrefixes(4) = {} \/ AutogenPrefixes(6) = {} THEN
        [exc |-> "CancelScript", msg |-> "Autogen v4 or v6 prefix not found",
         my_ipv4 |-> NoAddr, my_ipv6 |-> NoAddr]
    ELSE AutogenFrom(
             ForBreak(iter_cidrs(get_available_ips(S, Min(AutogenPrefixes(4)))), Unbound),
             ForBreak(iter_cidrs(get_available_ips(S, Min(AutogenPrefixes(6)))), Unbound))

\* lines 525-530: the addresses the caller supplied
Supplied(data) ==
    IF data.my_ipv4 = NoAddr \/ data.my_ipv6 = NoAddr THEN
        [exc |-> "CancelScript",
         msg |-> "Either autogen must be selected or IP fields must be completed",
         my_ipv4 |-> NoAddr, my_ipv6 |-> NoAddr]
    ELSE IF ~(data.my_ipv4.fam = 4 /\ data.my_ipv6.fam = 6) THEN
        [exc |-> "CancelScript", msg |-> "Invalid family for one or both IP assignments",
         my_ipv4 |-> NoAddr, my_ipv6 |-> NoAddr]
    ELSE [exc |-> "none", msg |-> "", my_ipv4 |-> data.my_ipv4, my_ipv6 |-> data.my_ipv6]

\* lines 534-536: an address row with this address is bound to an object
AlreadyAssigned(S, addr) ==
    \E k \in DOMAIN S.ips :
        /\ S.ips[k].fam = addr.fam /\ S.ips[k].val = addr.val /\ S.ips[k].hb = addr.hb
        /\ S.ips[k].port # 0

\* lines 538-545: nb_ip = IPAddress(address, assigned_object); nb_ip.save()
BindAddress(S, interface, addr) ==
    [S EXCEPT !.ips = Append(@, IpRow(addr.fam, addr.val, addr.hb, interface, {}))]

\* what ResolvePort hands on: [exc, msg, S, interface, descr, created];
\* interface is the port the addresses go to
PortOut(exc, msg, S, i, descr, created) ==
    [exc |-> exc, msg |-> msg, S |-> S, interface |-> i, descr |-> descr,
     created |-> created]

\* the fields the description is formatted from
PNIDescr(peer_asn, provider, cid, vcid) ==
    [kind |-> "pni", peer |-> peer_asn, provider |-> provider, cid |-> cid, vcid |-> vcid]

\* lines 464-472 for the sub-port `sub`: entry['vlan'] reads
\* interface.untagged_vlan.vid, then the vcid tag is made and added
VlanPort(sub, vcid, peer_asn) ==
    IF sub.S.ifaces[sub.interface].uvlan = 0 THEN
        PortOut("AttributeError", "", sub.S, sub.interface, NoAddr, FALSE)
    ELSE IF vcid = "" THEN
        PortOut("none", "", sub.S, sub.interface, PNIDescr(peer_asn, "", "", ""),
                sub.created)
    ELSE PortOut("none", "",
                 [make_semantic_tag(sub.S, VlanVcidTagSuffix, <<vcid>>) EXCEPT
                     !.ifaces[sub.interface].tags =
                         @ \cup {SemanticName(VlanVcidTagSuffix, <<vcid>>)}],
                 sub.interface, PNIDescr(peer_asn, "", "", vcid), sub.created)

\* faulty variant of InAccessMode: no port counts as an access port
InAccessMode_never(S, interface) == FALSE

\* line 427: interface.mode == InterfaceModeChoices.MODE_ACCESS
InAccessMode(S, interface) == S.ifaces[interface].mode = "access"

\* lines 421-488, whether the run goes on and with which interface and
\* description
ResolvePort(S, interface, data, peer_asn) ==
    IF data.vlan_id \notin {None, 0} THEN
        IF ~VlanInRange(data.vlan_id) THEN
            PortOut("CancelScript", "vlan_id must be an integer between 1 and 4094",
                    S, 0, NoAddr, FALSE)
        ELSE IF InAccessMode(S, interface) THEN
            PortOut("CancelScript", "Cannot assign a VLAN to interface", S, 0, NoAddr, FALSE)
        ELSE VlanPort(ResolveSubPort(S, interface, data.vlan_id),
                      data.virtual_circuit_id, peer_asn)
    ELSE IF IpRowsOf(S, interface) # {} THEN
        PortOut("CancelScript", "Interface already has IPs assigned to it",
                S, interface, NoAddr, FALSE)
    ELSE IF S.ifaces[interface].type = "lag" THEN
        PortOut("none", "", S, interface, PNIDescr(peer_asn, "", "", ""), FALSE)
    ELSE IF ~WiredToPNI(S, interface) THEN
        PortOut("CancelScript", "Non-VLAN/LAG Interface not wired to a valid circuit",
                S, interface, NoAddr, FALSE)
    ELSE PortOut("none", "", S, interface,
                 PNIDescr(peer_asn, S.circuits[S.ifaces[interface].cable].provider,
                          S.circuits[S.ifaces[interface].cable].cid, ""),
                 FALSE)

\* what the run did, for the record of the run: the port the addresses go
\* to and the number of addresses it had when the run started
PNIInfo(S, i) ==
    [NoInfo EXCEPT !.target = i,
                   !.targetHad = IF i \in DOMAIN S.ifaces
                                 THEN Cardinality(IpRowsOf(S, i)) ELSE 0]

\* lines 415-417: the tags loaded or created before anything is checked
PNITags(S, peer_asn) ==
    make_semantic_tag(lazy_load_tag(lazy_load_tag(S, PNIConfiguredTag), L2ptpTag),
                      PeerASNTagSuffix, <<peer_asn>>)

\* lines 490-499: the description and the three tags go on the interface
Describe(p, peer_asn) ==
    [p.S EXCEPT
        !.ifaces[p.interface].descr = p.descr,
        !.ifaces[p.interface].tags =
            @ \cup {L2ptpTag, PNIConfiguredTag,
                     SemanticName(PeerASNTagSuffix, <<peer_asn>>)}]

\* lines 549-563: the dict run() returns
PNIReturn(S, p, device, addrs, commit) ==
    [comment |-> IF commit THEN "Changes committed"
                 ELSE "Dry run. Database changes rolled back",
     result |-> commit,
     out |-> [device |-> device,
              name |-> S.ifaces[p.interface].name,
              entry |-> [status |-> IF p.created THEN "created" ELSE "",
                         description |-> p.descr,
                         tags |-> S.ifaces[p.interface].tags,
                         address |-> <<addrs.my_ipv4, addrs.my_ipv6>>]]]

\* lines 532-563: each address is refused if a row with it is bound to an
\* object, else bound to the interface; S0 is the store when the run
\* began, device the device of the target
BindBoth(S0, S, p, device, addrs, commit) ==
    IF addrs.exc = "CancelScript" THEN Cancels(S, addrs.msg, PNIInfo(S0, p.interface))
    ELSE IF addrs.exc # "none" THEN Faults(S, addrs.exc, PNIInfo(S0, p.interface))
    ELSE IF AlreadyAssigned(S, addrs.my_ipv4) THEN
        Cancels(S, "address is already assigned", PNIInfo(S0, p.interface))
    ELSE IF AlreadyAssigned(BindAddress(S, p.interface, addrs.my_ipv4), addrs.my_ipv6) THEN
        Cancels(BindAddress(S, p.interface, addrs.my_ipv4), "address is already assigned",
                PNIInfo(S0, p.interface))
    ELSE Returns(BindAddress(BindAddress(S, p.interface, addrs.my_ipv4),
                             p.interface, addrs.my_ipv6),
                 PNIReturn(S, p, device, addrs, commit),
                 PNIInfo(S0, p.interface))

\* lines 501-530: the addresses, autogenerated or supplied
ChooseAddrs(S0, S, data, p, device, commit) ==
    BindBoth(S0, S, p, device,
             IF data.autogen_ips THEN Autogenerate(S) ELSE Supplied(data), commit)

\* lines 421-499: the port is resolved; a cancellation or an exception
\* ends the run, else the port is described and tagged
ConfigurePort(S0, data, p, device, peer_asn, commit) ==
    IF p.exc = "CancelScript" THEN Cancels(p.S, p.msg, PNIInfo(S0, p.interface))
    ELSE IF p.exc # "none" THEN Faults(p.S, p.exc, PNIInfo(S0, p.interface))
    ELSE ChooseAddrs(S0, Describe(p, peer_asn), data, p, device, commit)

\* lines 386-403: the target, then everything else
ConfigureTarget(S, data, t, peer_asn, commit) ==
    IF t.exc = "CancelScript" THEN Cancels(S, "Interface not found or not unique", NoInfo)
    ELSE IF t.exc # "none" THEN Faults(S, t.exc, NoInfo)
    ELSE ConfigurePort(S, data,
                       ResolvePort(PNITags(S, peer_asn), t.interface, data, peer_asn),
                       S.ifaces[t.interface].device, peer_asn, commit)

\* ConfigurePNI.run (the method under its decorators)
ConfigurePNI(S, data, commit) ==
    ConfigureTarget(S, data, ResolveTarget(S, data), ToString(data.peer_asn), commit)

----------------------------------------------------------------------------
(* add_pni.py: CreatePNI                                                   *)

\* what the run did, for the record of the run: the port it was given
TopoInfo(interface) == [NoInfo EXCEPT !.target = interface]

\* line 91: interface.link_peers is not empty
HasLinkPeers(S, interface) ==
    S.ifaces[interface].peer # 0 \/ S.ifaces[interface].cable # 0

\* lines 127-165: the circuit, the tag and the description on the
\* interface, the two terminations and the cable
WireCircuit(S, data, provider) ==
    [S EXCEPT
        !.circuits = Append(@, [cid |-> data.circuit_id, provider |-> provider,
                                type |-> PNICircuitTypeSlug]),
        !.ifaces[data.interface].tags = @ \cup {PNICircuitTag},
        !.ifaces[data.interface].descr =
            [kind |-> "RESERVED", peer |-> "", provider |-> provider,
             cid |-> data.circuit_id, vcid |-> ""],
        !.ifaces[data.interface].cable = Len(S.circuits) + 1,
        !.terms = @ \o << [circuit |-> Len(S.circuits) + 1, side |-> "A"],
                          [circuit |-> Len(S.circuits) + 1, side |-> "Z"] >>,
        !.cables = Append(@, [iface |-> data.interface,
                              circuit |-> Len(S.circuits) + 1])]

\* lines 169-188: the dict run() returns
CreatePNIReturn(S, data, provider, madeProvider, madeNetwork, commit) ==
    [comment |-> IF commit THEN "Changes committed"
                 ELSE "Dry run. Database changes rolled back",
     result |-> commit,
     out |-> [provider |-> [action |-> IF madeProvider THEN "created" ELSE "found",
                            name |-> provider,
                            network |-> IF madeNetwork THEN "created" ELSE "found"],
              circuit |-> data.circuit_id,
              interface |-> S.ifaces[data.interface].name,
              tags |-> S.ifaces[data.interface].tags \cup {PNICircuitTag}]]

\* faulty variant of PNICircuit: the circuit is created without looking
\* for one with the requested cid
PNICircuit_unchecked(S, data, provider, madeProvider, madeNetwork, commit) ==
    Returns(WireCircuit(S, data, provider),
            CreatePNIReturn(S, data, provider, madeProvider, madeNetwork, commit),
            TopoInfo(data.interface))

\* lines 124-188: a circuit with the requested cid cancels the run
PNICircuit(S, data, provider, madeProvider, madeNetwork, commit) ==
    IF \E k \in DOMAIN S.circuits : S.circuits[k].cid = data.circuit_id THEN
        Cancels(S, "Circuit already exists", TopoInfo(data.interface))
    ELSE Returns(WireCircuit(S, data, provider),
                 CreatePNIReturn(S, data, provider, madeProvider, madeNetwork, commit),
                 TopoInfo(data.interface))

\* lines 108-122: the provider network is found or created
PNINetwork(S, data, provider, madeProvider, commit) ==
    IF \E k \in DOMAIN S.networks :
           S.networks[k] = [provider |-> provider, name |-> <<provider, "Network">>]
    THEN PNICircuit(S, data, provider, madeProvider, FALSE, commit)
    ELSE PNICircuit([S EXCEPT !.networks =
                        Append(@, [provider |-> provider,
                                   name |-> <<provider, "Network">>])],
                    data, provider, madeProvider, TRUE, commit)

\* faulty variant of PNIProvider: a provider named peer_name is created
\* without looking for one
PNIProvider_creates(S, data, commit) ==
    IF data.provider # "" THEN PNINetwork(S, data, data.provider, FALSE, commit)
    ELSE IF data.peer_name = "" THEN
        Cancels(S, "Peer (Provider) not selected", TopoInfo(data.interface))
    ELSE PNINetwork([S EXCEPT !.providers = Append(@, data.peer_name)],
                    data, data.peer_name, TRUE, commit)

\* lines 94-104: the provider is the one given, or the one named peer_name,
\* found or created
PNIProvider(S, data, commit) ==
    IF data.provider # "" THEN PNINetwork(S, data, data.provider, FALSE, commit)
    ELSE IF data.peer_name = "" THEN
        Cancels(S, "Peer (Provider) not selected", TopoInfo(data.interface))
    ELSE IF data.peer_name \in Range(S.providers) THEN
        PNINetwork(S, data, data.peer_name, FALSE, commit)
    ELSE PNINetwork([S EXCEPT !.providers = Append(@, data.peer_name)],
                    data, data.peer_name, TRUE, commit)

\* lines 87-92: the tag is loaded or created, a wired interface cancels
PNIWired(S, data, commit) ==
    IF HasLinkPeers(S, data.interface) THEN
        Cancels(S, "Interface is already wired", TopoInfo(data.interface))
    ELSE PNIProvider(S, data, commit)

\* CreatePNI.run (the method under its decorators)
CreatePNI(S, data, commit) ==
    PNIWired(lazy_load_tag(S, PNICircuitTag), data, commit)

----------------------------------------------------------------------------
(* add_pni.py: CreateBundle                                                *)

LacpL34Tag == <<"layer3+4">>
LacpSlowTag == <<"lacp_slow">>

\* The source tries the names bond0 to bond100; the model tries bond0 to
\* bond<LastBond>.
LastBond == 1

\* f'bond{i}': the bundle names are the interface names <<50>>, <<51>>, ...
BondName(i) == <<50 + i>>

\* lines 240-244: the first i of range(0, 101) whose name is free on the
\* device; when none is free the loop ends with i at its last value
FirstFreeBond(S, device) ==
    LET free == {i \in 0 .. LastBond :
                   ~\E k \in DOMAIN S.ifaces :
                       /\ S.ifaces[k].device = device
                       /\ S.ifaces[k].name = BondName(i)}
    IN  IF free = {} THEN LastBond ELSE Min(free)

\* lines 240-244: every name of the range is taken on the device
BondsExhausted(S, device) ==
    \A i \in 0 .. LastBond :
        \E k \in DOMAIN S.ifaces :
            S.ifaces[k].device = device /\ S.ifaces[k].name = BondName(i)

\* lines 246-255: the bundle port is saved and tagged
SaveBundle(S, device, lacp_name) ==
    [S EXCEPT !.ifaces =
        Append(@, [device |-> device, name |-> lacp_name, type |-> "lag",
                   mode |-> "", parent |-> 0, lag |-> 0, peer |-> 0, cable |-> 0,
                   uvlan |-> 0,
                   descr |-> [kind |-> "RESERVED", peer |-> "",
                              provider |-> "netbox.scripts.CreateBundle",
                              cid |-> "", vcid |-> ""],
                   tags |-> {PNICircuitTag}])]

\* lines 285-291: the member is put into the bundle and described
JoinBundle(S, lacp, interface) ==
    [S EXCEPT !.ifaces[interface].lag = lacp,
              !.ifaces[interface].descr =
                  [kind |-> "member", peer |-> ToString(S.ifaces[lacp].name),
                   provider |-> S.circuits[S.ifaces[interface].cable].provider,
                   cid |-> S.circuits[S.ifaces[interface].cable].cid,
                   vcid |-> ""]]

\* lines 273-294: the members in the order given, from the k-th on
RECURSIVE BundleMembers(_, _, _, _)
BundleMembers(S, lacp, interfaces, k) ==
    IF k > Len(interfaces) THEN [exc |-> "none", msg |-> "", S |-> S]
    ELSE IF IpRowsOf(S, interfaces[k]) # {} THEN
        [exc |-> "CancelScript", msg |-> "Interface already has IPs assigned to it",
         S |-> S]
    ELSE IF S.ifaces[interfaces[k]].lag # 0 THEN
        [exc |-> "CancelScript", msg |-> "Interface already assigned to a LAG", S |-> S]
    ELSE IF ~(S.ifaces[interfaces[k]].peer = 0 /\ WiredToPNI(S, interfaces[k])) THEN
        [exc |-> "CancelScript", msg |-> "Interface not wired to a valid circuit",
         S |-> S]
    ELSE BundleMembers(JoinBundle(S, lacp, interfaces[k]), lacp, interfaces, k + 1)

\* what the run did, for the record of the run: the bundle port it saved
\* and whether every name was taken when it began
BundleInfo(lacp, exhausted) ==
    [NoInfo EXCEPT !.target = lacp, !.exhausted = exhausted]

\* lines 296-310: the members' outcome ends the run
BundleEnd(m, lacp, exhausted, commit) ==
    IF m.exc = "CancelScript" THEN Cancels(m.S, m.msg, BundleInfo(lacp, exhausted))
    ELSE Returns(m.S,
                 [comment |-> IF commit THEN "Changes committed"
                              ELSE "Dry run. Database changes rolled back",
                  result |-> commit,
                  out |-> [name |-> m.S.ifaces[lacp].name,
                           tags |-> m.S.ifaces[lacp].tags]],
                 BundleInfo(lacp, exhausted))

\* lines 258-264: Tag.objects.get for each option asked for, then the
\* members
BundleTags(S, data, lacp, exhausted, commit) ==
    IF data.layer3_4 /\ TagGetFails(S, LacpL34Tag) THEN
        Faults(S, "DoesNotExist", BundleInfo(lacp, exhausted))
    ELSE IF data.lacp_slow /\ TagGetFails(S, LacpSlowTag) THEN
        Faults(S, "DoesNotExist", BundleInfo(lacp, exhausted))
    ELSE BundleEnd(
            BundleMembers(
                [S EXCEPT !.ifaces[lacp].tags =
                    @ \cup (IF data.layer3_4 THEN {LacpL34Tag} ELSE {})
                      \cup (IF data.lacp_slow THEN {LacpSlowTag} ELSE {})],
                lacp, data.interfaces, 1),
            lacp, exhausted, commit)

\* lines 246-253: lacp.save().  The source does not look whether the name
\* it ends the loop with is free; a database that keeps (device, name)
\* unique (data.unique) refuses the row, another one stores it.
BundleSave(S, data, exhausted, commit) ==
    IF exhausted /\ data.unique THEN Faults(S, "IntegrityError", BundleInfo(0, exhausted))
    ELSE BundleTags(SaveBundle(S, data.device, BondName(FirstFreeBond(S, data.device))),
                    data, Len(S.ifaces) + 1, exhausted, commit)

\* CreateBundle.run (the method under its decorators)
CreateBundle(S, data, commit) ==
    BundleSave(lazy_load_tag(S, PNICircuitTag), data,
               BondsExhausted(S, data.device), commit)

----------------------------------------------------------------------------
(* util/cancel_script.py and util/yaml_out.py: the decorators.             *)
(* A value of script.output is a str, a dict, or the YAML text that        *)
(* yaml.dump makes of a dict.                                              *)

StrVal(s) == [t |-> "str", s |-> s, d |-> <<>>]
DictVal(d) == [t |-> "dict", s |-> "", d |-> d]
\* yaml.dump(d): text, no longer a dict
YamlVal(d) == [t |-> "yaml", s |-> "", d |-> d]

\* script.output when run() is entered
InitialOutput == StrVal("")

\* the undecorated method seen from its caller: what it raises, what it
\* returns, and self.output
Bare(r, output) ==
    [exc |-> r.exc, ret |-> IF r.exc = "none" THEN DictVal(r.ret) ELSE StrVal(""),
     output |-> output]

\* faulty variant of cancellable: CancelScript passes through
cancellable_passes(r, output) == Bare(r, output)

\* @cancellable: CancelScript becomes AbortTransaction, with the message
\* left in self.output; everything else passes through
cancellable(r, output) ==
    IF r.exc = "CancelScript"
    THEN [exc |-> "AbortTransaction", ret |-> StrVal(""), output |-> StrVal(r.msg)]
    ELSE Bare(r, output)

\* the finally clause of yaml_out
YamlFinally(output) ==
    IF output.t = "dict" THEN YamlVal(output.d)
    ELSE IF output.t = "str" THEN DictVal([result |-> TRUE, comment |-> output.s])
    ELSE output

\* faulty variant of yaml_out: the exception is not raised again
yaml_out_swallows(e) ==
    [exc |-> "none",
     ret |-> YamlFinally(IF e.exc = "none" THEN e.ret
                         ELSE DictVal([result |-> FALSE, comment |-> e.output.s])),
     output |-> YamlFinally(IF e.exc = "none" THEN e.ret
                            ELSE DictVal([result |-> FALSE, comment |-> e.output.s]))]

\* @yaml_out around a call that ended as e
yaml_out(e) ==
    LET tried == IF e.exc = "none" THEN e.ret
                 ELSE DictVal([result |-> FALSE, comment |-> e.output.s])
        final == YamlFinally(tried)
    IN  [exc |-> e.exc, ret |-> final, output |-> final]

\* The script runner around run(): the transaction is committed only when
\* run() returns and commit is set; AbortTransaction rolls back without
\* marking the job errored, any other exception rolls back and marks it.
JobOf(e, commit) ==
    [committed |-> e.exc = "none" /\ commit,
     errored |-> e.exc \notin {"none", "AbortTransaction"}]

----------------------------------------------------------------------------
(* The record of the last run.                                             *)

\* the number of rows the method had added to each table of store S when
\* it ended with store T
AddedRows(S, T) ==
    [tags |-> Len(T.tags) - Len(S.tags), ifaces |-> Len(T.ifaces) - Len(S.ifaces),
     ips |-> Len(T.ips) - Len(S.ips), vlans |-> Len(T.vlans) - Len(S.vlans),
     providers |-> Len(T.providers) - Len(S.providers),
     networks |-> Len(T.networks) - Len(S.networks),
     circuits |-> Len(T.circuits) - Len(S.circuits),
     terms |-> Len(T.terms) - Len(S.terms), cables |-> Len(T.cables) - Len(S.cables)]

NoRun == [op |-> "none", commit |-> FALSE, raised |-> "none", msg |-> "",
          exc |-> "none", output |-> InitialOutput, committed |-> FALSE,
          errored |-> FALSE, dirty |-> FALSE, info |-> NoInfo, pairs |-> {},
          prevOp |-> "none",
          added |-> [tags |-> 0, ifaces |-> 0, ips |-> 0, vlans |-> 0, providers |-> 0,
                     networks |-> 0, circuits |-> 0, terms |-> 0, cables |-> 0]]

\* r: what the method did; e: what left the decorators.  prevOp names the
\* run before this one when that run was committed.
RunRecord(op, commit, r, e, S) ==
    [op |-> op, commit |-> commit, raised |-> r.exc, msg |-> r.msg, exc |-> e.exc,
     output |-> e.output,
     committed |-> JobOf(e, commit).committed,
     errored |-> JobOf(e, commit).errored,
     dirty |-> r.S # S,
     info |-> r.info,
     pairs |-> {},
     prevOp |-> IF last.committed THEN last.op ELSE "none",
     added |-> AddedRows(S, r.S)]

\* faulty variant of Commit: the writes of a run asked to commit are kept
\* however the run ended
Commit_keeps_writes(r, e, commit) ==
    /\ tags' = (IF commit THEN r.S ELSE Store).tags
    /\ ifaces' = (IF commit THEN r.S ELSE Store).ifaces
    /\ ips' = (IF commit THEN r.S ELSE Store).ips
    /\ vlans' = (IF commit THEN r.S ELSE Store).vlans
    /\ providers' = (IF commit THEN r.S ELSE Store).providers
    /\ networks' = (IF commit THEN r.S ELSE Store).networks
    /\ circuits' = (IF commit THEN r.S ELSE Store).circuits
    /\ terms' = (IF commit THEN r.S ELSE Store).terms
    /\ cables' = (IF commit THEN r.S ELSE Store).cables

\* the store after the run: the method's writes, or none of them
Commit(r, e, commit) ==
    LET S == IF JobOf(e, commit).committed THEN r.S ELSE Store
    IN  /\ tags' = S.tags
        /\ ifaces' = S.ifaces
        /\ ips' = S.ips
        /\ vlans' = S.vlans
        /\ providers' = S.providers
        /\ networks' = S.networks
        /\ circuits' = S.circuits
        /\ terms' = S.terms
        /\ cables' = S.cables

----------------------------------------------------------------------------
(* The renumbering specification: Generate, Prune, and the operator        *)
(* marking interfaces with 'renumber'.                                     *)

NoDescr == [kind |-> "", peer |-> "", provider |-> "", cid |-> "", vcid |-> ""]

\* an interface row
Iface(device, name, peer, tagset) ==
    [device |-> device, name |-> name, type |-> "physical",
     mode |-> "", parent |-> 0, lag |-> 0, peer |-> peer, cable |-> 0,
     uvlan |-> 0, descr |-> NoDescr, tags |-> tagset]

\* the pairs both of whose ports are marked and carry a role tag
EligiblePairs(S) ==
    LET ok(i) == /\ renumber \in S.ifaces[i].tags
                 /\ S.ifaces[i].tags \cap {l2ptp, l3ptp} # {}
    IN  {<<i, S.ifaces[i].peer>> : i \in {j \in DOMAIN S.ifaces :
            /\ S.ifaces[j].peer # 0
            /\ ok(j)
            /\ ok(S.ifaces[j].peer)}}

\* a call of GenerateNew: the two prefix parameters, and whether the build
\* binds the name DoesNotExist
GenerateCall(p4, p6, dneBound) ==
    [ipv4_prefix |-> p4, ipv6_prefix |-> p6, dneBound |-> dneBound]

\* calls whose prefixes resolve: from the form, and by id and by string
ValidCalls ==
    {GenerateCall(PrefixObj(1), PrefixObj(2), TRUE),
     GenerateCall(PrefixInt(1), PrefixStr("2001:db8::/64"), TRUE)}

\* a run of a script: r is what run() did, e what left its decorators
Run(op, commit, r, e, pairs) ==
    /\ Commit(r, e, commit)
    /\ last' = [RunRecord(op, commit, r, e, Store) EXCEPT !.pairs = pairs]
    /\ UNCHANGED callers

\* GenerateNew.run is under @yaml_out and @cancellable
GenerateRun(r, commit) ==
    Run("Generate", commit, r, yaml_out(cancellable(r, InitialOutput)),
        EligiblePairs(Store))

\* PruneIPs.run is under @yaml_out alone
PruneRun(r, commit) ==
    Run("Prune", commit, r, yaml_out(Bare(r, InitialOutput)), {})

Generate(calls) ==
    /\ Cardinality({k \in DOMAIN ips : ips[k].port # 0}) <= MaxIPs
    /\ \E data \in calls, commit \in BOOLEAN :
          GenerateRun(GenerateNew(Store, data, data.dneBound), commit)

Prune ==
    \E commit \in BOOLEAN : PruneRun(PruneIPs(Store), commit)

\* the operator marks an interface for renumbering
Relabel ==
    \E i \in DOMAIN ifaces :
        /\ renumber \notin ifaces[i].tags
        /\ ifaces' = [ifaces EXCEPT ![i].tags = @ \cup {renumber}]
        /\ last' = [NoRun EXCEPT !.op = "Relabel"]
        /\ UNCHANGED <<tags, ips, vlans, providers, networks, circuits, terms, cables,
                       callers>>

\* the address rows already in the store: held addresses of the two blocks
\* (bound to no interface), then the old addresses of the interfaces
InitIps(held4, held6, old) ==
    LET h4 == SortedSeq(held4)
        h6 == SortedSeq(held6)
    IN  [k \in DOMAIN h4 |-> IpRow(4, h4[k], 0, 0, {})] \o
        [k \in DOMAIN h6 |-> IpRow(6, h6[k], 0, 0, {})] \o old

\* the held sets tried for a block 0..max: nothing held, a leading
\* fragment, one subnet left, single addresses left, nothing left
HeldSets(max) ==
    {{}, {0}, 2 .. max, 1 .. max, {0} \cup (2 .. max), {0, max}, 0 .. max}

RoleSets == {{}, {l2ptp}, {l3ptp}}

\* Two links between two devices, every port a layer-2 PTP port; the
\* interfaces sort as 1, 3, 2, 4.  The pools vary.
InitTwoLinks ==
    /\ ifaces = << Iface(1, <<1>>, 2, {l2ptp}), Iface(2, <<1>>, 1, {l2ptp}),
                   Iface(1, <<2>>, 4, {l2ptp}), Iface(2, <<2>>, 3, {l2ptp}) >>
    /\ \E held4 \in HeldSets(MaxAddr4), held6 \in {{}, 2 .. MaxAddr6, 0 .. MaxAddr6} :
          ips = InitIps(held4, held6,
                        << IpRow(4, 101, 1, 1, {}), IpRow(4, 103, 1, 3, {}),
                           IpRow(6, 103, 1, 3, {}) >>)

\* One link; the role tags of its two ports vary.
InitOneLink ==
    /\ \E r1 \in RoleSets, r2 \in RoleSets :
          ifaces = << Iface(1, <<1>>, 2, r1), Iface(2, <<1>>, 1, r2) >>
    /\ \E held4 \in {{}, {0}, 0 .. MaxAddr4} :
          ips = InitIps(held4, {}, << IpRow(4, 101, 1, 1, {}), IpRow(6, 101, 1, 1, {}) >>)

\* no provider, circuit or cable exists
NoCircuits ==
    /\ providers = <<>> /\ networks = <<>> /\ circuits = <<>>
    /\ terms = <<>> /\ cables = <<>>

\* The renumber tag and the role tags exist (GenerateNew loads them with
\* get); new_ip and prune do not exist before the first Generate.
InitRenumber ==
    /\ tags = <<renumber, l2ptp, l3ptp>>
    /\ (InitTwoLinks \/ InitOneLink)
    /\ vlans = <<>>
    /\ NoCircuits
    /\ last = NoRun
    /\ callers = NoCallers

NextRenumber == Generate(ValidCalls) \/ Prune \/ Relabel

SpecRenumber == InitRenumber /\ [][NextRenumber]_vars

----------------------------------------------------------------------------
(* The provisioning specification: ConfigurePNI runs on a device that has  *)
(* a wired PNI port, a second port and a LAG.                              *)

\* ConfigurePNI is not started once more address rows than this are bound
\* to interfaces.
MaxPNIRows == 2

PNIIface(device, name, type, mode, cable, tagset) ==
    [Iface(device, name, 0, tagset) EXCEPT !.type = type, !.mode = mode, !.cable = cable]

\* how a caller names the target: an Interface object, or two strings
TargetObj(i) == [byName |-> FALSE, iface |-> i, device |-> 0, ifname |-> <<>>]
TargetStr(device, ifname) ==
    [byName |-> TRUE, iface |-> 0, device |-> device, ifname |-> ifname]

\* the address parameters: autogeneration, or a local IPv4 and IPv6
AddrChoices ==
    {[autogen_ips |-> TRUE, my_ipv4 |-> NoAddr, my_ipv6 |-> NoAddr],
     [autogen_ips |-> FALSE, my_ipv4 |-> [fam |-> 4, val |-> 200, hb |-> 1],
                             my_ipv6 |-> [fam |-> 6, val |-> 200, hb |-> 1]],
     [autogen_ips |-> FALSE, my_ipv4 |-> NoAddr,
                             my_ipv6 |-> [fam |-> 6, val |-> 200, hb |-> 1]],
     [autogen_ips |-> FALSE, my_ipv4 |-> [fam |-> 6, val |-> 200, hb |-> 1],
                             my_ipv6 |-> [fam |-> 4, val |-> 200, hb |-> 1]]}

\* the VLAN parameters: none, a VLAN id with or without a virtual circuit
\* id, a VLAN id out of range
VlanChoices ==
    {[vlan_id |-> None, virtual_circuit_id |-> ""],
     [vlan_id |-> 100, virtual_circuit_id |-> ""],
     [vlan_id |-> 100, virtual_circuit_id |-> "vc7"],
     [vlan_id |-> 4095, virtual_circuit_id |-> ""]}

\* ConfigurePNI.run is under @yaml_out and @cancellable
ConfigureRun(r, commit) ==
    Run("ConfigurePNI", commit, r, yaml_out(cancellable(r, InitialOutput)), {})

Configure ==
    /\ Cardinality({k \in DOMAIN ips : ips[k].port # 0}) <= MaxPNIRows
    /\ \E target \in {TargetObj(i) : i \in DOMAIN ifaces}
                        \cup {TargetStr(1, <<1>>), TargetStr(1, <<9>>)},
          vlan \in VlanChoices, addrs \in AddrChoices, commit \in BOOLEAN :
        ConfigureRun(
            ConfigurePNI(Store,
                         [byName |-> target.byName, iface |-> target.iface,
                          device |-> target.device, ifname |-> target.ifname,
                          vlan_id |-> vlan.vlan_id, peer_asn |-> 65001,
                          virtual_circuit_id |-> vlan.virtual_circuit_id,
                          autogen_ips |-> addrs.autogen_ips,
                          my_ipv4 |-> addrs.my_ipv4, my_ipv6 |-> addrs.my_ipv6],
                         commit),
            commit)

\* the providers, networks, terminations and cables of CircuitTable, eth1
\* cabled to the first circuit and eth2 to the second
TwoCircuits ==
    /\ providers = <<"PeerA", "PeerB">>
    /\ networks = << [provider |-> "PeerA", name |-> <<"PeerA", "Network">>],
                     [provider |-> "PeerB", name |-> <<"PeerB", "Network">>] >>
    /\ circuits = CircuitTable
    /\ terms = << [circuit |-> 1, side |-> "A"], [circuit |-> 1, side |-> "Z"],
                  [circuit |-> 2, side |-> "A"], [circuit |-> 2, side |-> "Z"] >>
    /\ cables = << [iface |-> 1, circuit |-> 1], [iface |-> 2, circuit |-> 2] >>

\* Device 1 has eth1 (cabled to a PNI circuit by CreatePNI), eth2 (cabled
\* to a transit circuit) and a LAG; device 2 has a sub-port that bears the
\* name eth2.100, with the VLAN 100 of its site as untagged VLAN or with
\* none.
InitPNI ==
    /\ tags = <<PNICircuitTag>>
    /\ vlans \in {<<>>, << [site |-> SiteOf(2), vid |-> 100] >>}
    /\ ifaces = << PNIIface(1, <<1>>, "physical", "", 1, {PNICircuitTag}),
                   PNIIface(1, <<2>>, "physical", "", 2, {}),
                   PNIIface(1, <<50>>, "lag", "", 0, {}),
                   [PNIIface(2, <<2, 100>>, "virtual", "access", 0, {})
                       EXCEPT !.uvlan = Len(vlans)] >>
    /\ \E held4 \in {{}, {0}, 0 .. MaxAddr4} : ips = InitIps(held4, {}, <<>>)
    /\ TwoCircuits
    /\ last = NoRun
    /\ callers = NoCallers

NextPNI == Configure

SpecPNI == InitPNI /\ [][NextPNI]_vars

----------------------------------------------------------------------------
(* The topology specification: CreatePNI, CreateBundle and ConfigurePNI on *)
(* a device with two unwired ports.                                        *)

\* the physical ports
Physical(S) == {i \in DOMAIN S.ifaces : S.ifaces[i].type = "physical"}

\* CreatePNI.run and CreateBundle.run are under @yaml_out and @cancellable
CreatePNIRun(r, commit) ==
    Run("CreatePNI", commit, r, yaml_out(cancellable(r, InitialOutput)), {})

CreateBundleRun(r, commit) ==
    Run("CreateBundle", commit, r, yaml_out(cancellable(r, InitialOutput)), {})

\* how a caller names the peer: not at all, by name, or by a Provider
\* object of the store
PeerChoices(S) ==
    {[provider |-> "", peer_name |-> n] : n \in {"", "PeerA", "PeerB"}}
        \cup {[provider |-> n, peer_name |-> ""] : n \in Range(S.providers)}

PNICall(interface, peer, circuit_id) ==
    [device |-> ifaces[interface].device, interface |-> interface,
     provider |-> peer.provider, peer_name |-> peer.peer_name,
     circuit_id |-> circuit_id]

NewPNI ==
    \E interface \in Physical(Store), peer \in PeerChoices(Store),
       circuit_id \in {"CID1", "CID2"}, commit \in BOOLEAN :
        CreatePNIRun(CreatePNI(Store, PNICall(interface, peer, circuit_id), commit),
                     commit)

\* the member lists: one port, or two ports
MemberLists(S) ==
    {<<i>> : i \in Physical(S)}
        \cup {<<p[1], p[2]>> : p \in {q \in Physical(S) \X Physical(S) : q[1] < q[2]}}

NewBundle ==
    \E interfaces \in MemberLists(Store), layer3_4 \in BOOLEAN, lacp_slow \in BOOLEAN,
       unique \in (IF BondsExhausted(Store, 1) THEN BOOLEAN ELSE {TRUE}),
       commit \in BOOLEAN :
        CreateBundleRun(
            CreateBundle(Store,
                         [device |-> 1, interfaces |-> interfaces,
                          layer3_4 |-> layer3_4, lacp_slow |-> lacp_slow,
                          unique |-> unique],
                         commit),
            commit)

\* ConfigurePNI with or without VLAN 100 and with the local addresses
\* supplied: always the same IPv4 address, and one of two IPv6 addresses
VlanCall(i, vlan_id, v6) ==
    [byName |-> FALSE, iface |-> i, device |-> 0, ifname |-> <<>>,
     vlan_id |-> vlan_id, peer_asn |-> 65001, virtual_circuit_id |-> "",
     autogen_ips |-> FALSE,
     my_ipv4 |-> [fam |-> 4, val |-> 200, hb |-> 1],
     my_ipv6 |-> [fam |-> 6, val |-> v6, hb |-> 1]]

ConfigureNew ==
    \E i \in Physical(Store), vlan_id \in {None, 100}, v6 \in {200, 202},
       commit \in BOOLEAN :
        ConfigureRun(ConfigurePNI(Store, VlanCall(i, vlan_id, v6), commit), commit)

\* the LAG named bond<i> of device 1
BondIface(i) == PNIIface(1, BondName(i), "lag", "", 0, {})

\* Device 1 has eth1 (a trunk port, not wired) and eth2 (an access port
\* that CreatePNI wired to circuit CID2 of PeerB), and either no bundle or a
\* bundle of every name; lo0 of device 2 has an IPv6 address; the tag
\* 'layer3+4' exists and 'lacp_slow' does not.
InitTopo ==
    /\ tags = <<PNICircuitTag, LacpL34Tag>>
    /\ \E n \in {0, LastBond + 1} :
          ifaces = << PNIIface(1, <<1>>, "physical", "tagged", 0, {}),
                      [PNIIface(1, <<2>>, "physical", "access", 1, {PNICircuitTag})
                          EXCEPT !.descr = [kind |-> "RESERVED", peer |-> "",
                                            provider |-> "PeerB", cid |-> "CID2",
                                            vcid |-> ""]],
                      PNIIface(2, <<0>>, "virtual", "", 0, {}) >>
                   \o [i \in 1 .. n |-> BondIface(i - 1)]
    /\ ips = <<IpRow(6, 200, 1, 3, {})>>
    /\ vlans = <<>>
    /\ providers = <<"PeerB">>
    /\ networks = << [provider |-> "PeerB", name |-> <<"PeerB", "Network">>] >>
    /\ circuits = << [cid |-> "CID2", provider |-> "PeerB", type |-> PNICircuitTypeSlug] >>
    /\ terms = << [circuit |-> 1, side |-> "A"], [circuit |-> 1, side |-> "Z"] >>
    /\ cables = << [iface |-> 2, circuit |-> 1] >>
    /\ last = NoRun
    /\ callers = NoCallers

NextTopo == NewPNI \/ NewBundle \/ ConfigureNew

SpecTopo == InitTopo /\ [][NextTopo]_vars

----------------------------------------------------------------------------
(* The calls specification: Generate with prefix parameters of every       *)
(* shape, valid or not, and the tag helpers of util/tags.py called one at  *)
(* a time.                                                                 *)

\* calls whose IPv4 or IPv6 parameter is of the other family, or matches
\* no block
InvalidCalls ==
    {GenerateCall(p4, PrefixObj(2), b) :
        p4 \in {PrefixObj(2), PrefixInt(2), PrefixStr("2001:db8::/64"),
                PrefixInt(9), PrefixStr("192.0.2.0/24")},
        b \in BOOLEAN}
      \cup {GenerateCall(PrefixObj(1), PrefixObj(1), TRUE),
            GenerateCall(PrefixInt(1), PrefixStr("10.0.0.0/24"), TRUE)}

\* the names the tag helpers are called with
TagNames == {new_ip, PNICircuitTag, SemanticName(PeerASNTagSuffix, <<"65001">>)}

\* lazy_load_tag(name), and parse_semantic_tags of the tag it returns
LoadTag ==
    \E name \in TagNames :
        /\ tags' = lazy_load_tag(Store, name).tags
        /\ last' = [NoRun EXCEPT !.op = "lazy_load_tag",
                                 !.added.tags = Len(tags') - Len(tags),
                                 !.output = DictVal([name |-> name,
                                     parsed |-> parse_semantic_tags(<<name>>)])]
        /\ UNCHANGED <<ifaces, ips, vlans, providers, networks, circuits, terms, cables,
                       callers>>

\* the keys and values semantic tags are made with: a number, and a text
\* that has the delimiter in it
SemanticCalls ==
    {[k |-> PeerASNTagSuffix, v |-> <<"65001">>],
     [k |-> VlanVcidTagSuffix, v |-> <<"a", DELIMITER, "b">>]}

\* make_semantic_tag(k, v), and parse_semantic_tags of the tag it returns
MakeTag ==
    \E c \in SemanticCalls :
        /\ tags' = make_semantic_tag(Store, c.k, c.v).tags
        /\ last' = [NoRun EXCEPT !.op = "make_semantic_tag",
                                 !.added.tags = Len(tags') - Len(tags),
                                 !.output = DictVal([k |-> c.k, v |-> c.v,
                                     parsed |-> parse_semantic_tags(
                                                    <<SemanticName(c.k, c.v)>>)])]
        /\ UNCHANGED <<ifaces, ips, vlans, providers, networks, circuits, terms, cables,
                       callers>>

\* One link between two l2ptp ports, both marked 'renumber'; the first has
\* an address of each family; nothing of the two blocks is held.
InitCalls ==
    /\ tags = <<renumber, l2ptp, l3ptp>>
    /\ ifaces = << Iface(1, <<1>>, 2, {l2ptp, renumber}),
                   Iface(2, <<1>>, 1, {l2ptp, renumber}) >>
    /\ ips = InitIps({}, {}, << IpRow(4, 101, 1, 1, {}), IpRow(6, 101, 1, 1, {}) >>)
    /\ vlans = <<>>
    /\ NoCircuits
    /\ last = NoRun
    /\ callers = NoCallers

NextCalls == Generate(ValidCalls \cup InvalidCalls) \/ LoadTag \/ MakeTag

SpecCalls == InitCalls /\ [][NextCalls]_vars

----------------------------------------------------------------------------
(* The concurrent specification: scripts in separate workers call          *)
(* lazy_load_tag at the same time.  The query of line 11 and the save of   *)
(* line 16 are separate statements against the database, and the function  *)
(* takes no lock, so the steps of one call interleave with those of the    *)
(* others.                                                                 *)

\* line 11: Tag.objects.filter(name=name).first(); a tag found is returned
Lookup(p) ==
    \E name \in {new_ip, PNICircuitTag} :
        /\ callers[p].pc = "idle"
        /\ callers' = [callers EXCEPT ![p] =
                          Caller(IF TagRows(Store, name) # {} THEN "returned"
                                 ELSE "missing", name)]
        /\ UNCHANGED <<tags, ifaces, ips, vlans, providers, networks, circuits, terms,
                       cables, last>>

\* lines 15-18: tag = Tag(name=name); tag.save(); return tag.  Whether the
\* database refuses a second row of the name is not decided by the scripts:
\* where it does, save() raises IntegrityError; where it does not, the row
\* is stored.
Insert(p) ==
    \E unique \in BOOLEAN :
        /\ callers[p].pc = "missing"
        /\ IF unique /\ TagRows(Store, callers[p].name) # {}
           THEN /\ callers' = [callers EXCEPT ![p].pc = "faulted"]
                /\ UNCHANGED tags
           ELSE /\ callers' = [callers EXCEPT ![p].pc = "returned"]
                /\ tags' = TagSave(Store, callers[p].name).tags
        /\ UNCHANGED <<ifaces, ips, vlans, providers, networks, circuits, terms, cables,
                       last>>

\* the caller goes on and may call again
Leave(p) ==
    /\ callers[p].pc \in {"returned", "faulted"}
    /\ callers' = [callers EXCEPT ![p] = Caller("idle", <<>>)]
    /\ UNCHANGED <<tags, ifaces, ips, vlans, providers, networks, circuits, terms,
                   cables, last>>

\* no interface, address or circuit; the tag table has one tag
InitRace ==
    /\ tags = <<renumber>>
    /\ ifaces = <<>> /\ ips = <<>> /\ vlans = <<>>
    /\ NoCircuits
    /\ last = NoRun
    /\ callers = NoCallers

NextRace == \E p \in Callers : Lookup(p) \/ Insert(p) \/ Leave(p)

SpecRace == InitRace /\ [][NextRace]_vars

----------------------------------------------------------------------------
(* Properties of the renumbering scripts.                                  *)

\* what the n-th allocation of the last Generate found available
Avail4Before(n) ==
    last.info.avail4 \ UNION {last.info.processed[m].net4 : m \in 1 .. (n - 1)}
Avail6Before(n) ==
    last.info.avail6 \ UNION {last.info.processed[m].net6 : m \in 1 .. (n - 1)}

\* the aligned two-address subnets that lie wholly inside a set, ascending
AlignedSubnets(S) == SortedSeq({f \in S : f % 2 = 0 /\ (f + 1) \in S})

\* C2 (as claimed): an allocation from a block with no aligned /31 (/127)
\* left is cancelled, and no allocated pair holds an address that was not
\* available.
C2_ExhaustedPoolCancels ==
    last.op = "Generate" =>
        /\ last.raised # "UnboundLocalError"
        /\ \A n \in DOMAIN last.info.processed :
              /\ last.info.processed[n].net4 \subseteq Avail4Before(n)
              /\ last.info.processed[n].net6 \subseteq Avail6Before(n)

\* C3 (as claimed): the subnets one Generate allocates to different pairs are
\* pairwise disjoint, and every allocated address was available when the
\* invocation started.
C3_DisjointAndAvailable ==
    last.op = "Generate" =>
        LET pr == last.info.processed
        IN  /\ \A m, n \in DOMAIN pr :
                  m # n => /\ pr[m].net4 \cap pr[n].net4 = {}
                           /\ pr[m].net6 \cap pr[n].net6 = {}
            /\ \A n \in DOMAIN pr :
                  /\ pr[n].net4 \subseteq last.info.avail4
                  /\ pr[n].net6 \subseteq last.info.avail6

\* the n-th allocation is the n-th lowest aligned subnet of the available
\* set, first address to the primary port, second to the peer
NthLowest(n) ==
    LET pr == last.info.processed[n]
        s4 == AlignedSubnets(last.info.avail4)
        s6 == AlignedSubnets(last.info.avail6)
    IN  /\ n <= Len(s4) /\ n <= Len(s6)
        /\ pr.new4[1].val = s4[n] /\ pr.new4[2].val = s4[n] + 1
        /\ pr.new6[1].val = s6[n] /\ pr.new6[2].val = s6[n] + 1
        /\ last.committed =>
              \A f \in {1, 2} :
                 LET port == IF f = 1 THEN pr.primary ELSE pr.peer
                 IN  /\ \E k \in DOMAIN ips :
                           ips[k] = IpRow(4, s4[n] + f - 1, 1, port, ips[k].tags)
                     /\ \E k \in DOMAIN ips :
                           ips[k] = IpRow(6, s6[n] + f - 1, 1, port, ips[k].tags)

\* C4 (as claimed): for every block state, the n-th allocation of a Generate
\* returns the n-th lowest aligned subnet inside the available set.
C4_NthLowestSubnet ==
    last.op = "Generate" => \A n \in DOMAIN last.info.processed : NthLowest(n)

\* the same, for the allocations made while the block still held an aligned
\* subnet of each family
C4_NthLowestWhileNotExhausted ==
    last.op = "Generate" =>
        \A n \in DOMAIN last.info.processed :
            (/\ n <= Len(AlignedSubnets(last.info.avail4))
             /\ n <= Len(AlignedSubnets(last.info.avail6))) => NthLowest(n)

\* the rows of an address table bound to a port, of one family
RowsOn(table, port, fam) == {k \in DOMAIN table : table[k].port = port /\ table[k].fam = fam}

\* how often the last Generate processed the pair of ports A and B
TimesProcessed(A, B) ==
    Cardinality({n \in DOMAIN last.info.processed :
        {last.info.processed[n].primary, last.info.processed[n].peer} = {A, B}})

\* C5: a Generate that completes has processed every linked pair whose two
\* ports carried 'renumber' and a PTP role tag exactly once (whichever port
\* is scanned first): one /31 and one /127 for the pair, and on each port
\* exactly one new IPv4 and one new IPv6 address row.
C5_PairProcessedOnce ==
    [][(last'.op = "Generate" /\ last'.raised = "none") =>
          \A pair \in EligiblePairs(Store) :
             /\ Cardinality({n \in DOMAIN last'.info.processed :
                    {last'.info.processed[n].primary, last'.info.processed[n].peer}
                        = {pair[1], pair[2]}}) = 1
             /\ last'.committed =>
                   \A fam \in {4, 6} :
                      Cardinality(RowsOn(ips', pair[1], fam)) =
                          Cardinality(RowsOn(ips, pair[1], fam)) + 1
       ]_vars

\* a committed Generate has processed a marked pair whose ports lie on both
\* sides of the scan order
C5_Witness ==
    /\ last.op = "Generate" /\ last.committed
    /\ <<1, 2>> \in last.pairs /\ <<2, 1>> \in last.pairs
    /\ TimesProcessed(1, 2) = 1

\* the addresses the committed Generate recorded in `gen` made for a port
NewAddrsOf(gen, port) ==
    LET n == CHOOSE m \in DOMAIN gen.info.processed :
                 port \in {gen.info.processed[m].primary, gen.info.processed[m].peer}
        f == IF gen.info.processed[n].primary = port THEN 1 ELSE 2
    IN  {gen.info.processed[n].new4[f], gen.info.processed[n].new6[f]}

\* C6: a committed Generate followed by a committed Prune leaves each port of
\* a pair that was marked and role-tagged with exactly its two new address
\* rows, leaves no address row tagged 'prune' or 'new_ip', and neither port
\* tagged 'renumber'.
C6_GenerateThenPrune ==
    [][(/\ last.op = "Generate" /\ last.committed
        /\ last'.op = "Prune" /\ last'.committed) =>
          /\ \A k \in DOMAIN ips' : ips'[k].tags \cap {prune, new_ip} = {}
          /\ \A pair \in last.pairs :
                LET A == pair[1]
                    rows == {k \in DOMAIN ips' : ips'[k].port = A}
                IN  /\ renumber \notin ifaces'[A].tags
                    /\ Cardinality(rows) = 2
                    /\ {[fam |-> ips'[k].fam, val |-> ips'[k].val, hb |-> ips'[k].hb] :
                            k \in rows} = NewAddrsOf(last, A)
       ]_vars

\* a committed Prune right after a committed Generate deleted old addresses
\* and cleared new_ip tags
C6_Witness ==
    /\ last.op = "Prune" /\ last.committed /\ last.prevOp = "Generate"
    /\ last.info.deleted # <<>> /\ last.info.cleared # <<>>

\* C7: a Prune that runs right after a committed Prune deletes nothing,
\* clears nothing and writes nothing.
C7_SecondPruneNoOp ==
    (last.op = "Prune" /\ last.prevOp = "Prune") =>
        /\ last.raised = "none"
        /\ last.info.deleted = <<>>
        /\ last.info.cleared = <<>>
        /\ ~last.dirty

\* a second Prune in a row, in a store that holds renumbered addresses
C7_Witness ==
    /\ last.op = "Prune" /\ last.prevOp = "Prune" /\ last.committed
    /\ \E k \in DOMAIN ips : ips[k].port # 0 /\ ips[k].tags = {l2ptp}

\* C8 (as claimed): Prune succeeds with result true from every store state,
\* also when the 'prune' and 'new_ip' tags were never created.
C8_PruneAlwaysSucceeds ==
    last.op = "Prune" =>
        /\ last.raised = "none"
        /\ ~last.errored
        /\ last.output.t = "yaml"
        /\ last.output.d.result = TRUE

NoEligible == "No eligible interfaces marked for renumbering."

----------------------------------------------------------------------------
(* Properties of ConfigurePNI.                                             *)

\* C1 (as claimed): a ConfigurePNI whose addresses would go to a port that
\* already has an address row, with or without a VLAN id, is cancelled and
\* commits nothing.
C1_AddressedPortRejected ==
    (last.op = "ConfigurePNI" /\ last.info.target # 0 /\ last.info.targetHad > 0) =>
        /\ last.raised = "CancelScript"
        /\ ~last.committed

\* the same, for the runs that were given no VLAN id
C1_AddressedPortRejectedNoVlan ==
    (/\ last.op = "ConfigurePNI" /\ last.info.target # 0 /\ last.info.targetHad > 0
     /\ ifaces[last.info.target].type # "virtual") =>
        /\ last.raised = "CancelScript"
        /\ ~last.committed

----------------------------------------------------------------------------
(* Properties of the decorators.                                           *)

\* C10: when run() raises CancelScript, what leaves the decorators is
\* AbortTransaction, the output is the YAML of {result: false, comment: the
\* cancellation message}, the job is not marked errored, and the store is
\* what it was before the run.
C10_CancelAbortsAndRollsBack ==
    [][last'.raised = "CancelScript" =>
          /\ last'.exc = "AbortTransaction"
          /\ last'.output = YamlVal([result |-> FALSE, comment |-> last'.msg])
          /\ last'.msg # ""
          /\ ~last'.errored
          /\ ~last'.committed
          /\ UNCHANGED Store
       ]_vars

\* a run asked to commit was cancelled after it had written to the store
C10_Witness ==
    /\ last.raised = "CancelScript" /\ last.commit /\ last.dirty
    /\ last.exc = "AbortTransaction"

\* C11: an exception other than CancelScript raised by run() leaves the
\* decorators as that same exception (the job is marked errored, nothing is
\* committed), and the output is the YAML of a result=false payload.
C11_FaultPropagates ==
    last.raised \notin {"none", "CancelScript"} =>
        /\ last.exc = last.raised
        /\ last.errored
        /\ ~last.committed
        /\ last.output.t = "yaml"
        /\ last.output.d.result = FALSE

\* a Generate asked to commit raised UnboundLocalError after it had written
C11_Witness ==
    /\ last.op = "Generate" /\ last.commit /\ last.dirty
    /\ last.raised = "UnboundLocalError" /\ last.exc = "UnboundLocalError"

----------------------------------------------------------------------------
(* Properties of the topology scripts.                                     *)

\* C12: when CreatePNI, CreateBundle or ConfigurePNI is cancelled, no
\* provider, provider network, circuit, termination, cable, port, VLAN or
\* address that it had created exists in the store afterwards.
C12_NoPartialTopology ==
    [][(/\ last'.op \in {"CreatePNI", "CreateBundle", "ConfigurePNI"}
        /\ last'.raised = "CancelScript")
          => /\ providers' = providers /\ networks' = networks
             /\ circuits' = circuits /\ terms' = terms /\ cables' = cables
             /\ ifaces' = ifaces /\ vlans' = vlans /\ ips' = ips
       ]_vars

\* a CreatePNI asked to commit was cancelled at the duplicate-circuit check
\* after it had created a provider and its network
C12_Witness ==
    /\ last.op = "CreatePNI" /\ last.commit /\ last.raised = "CancelScript"
    /\ last.msg = "Circuit already exists"
    /\ last.added.providers = 1 /\ last.added.networks = 1

\* a CreateBundle asked to commit was cancelled at a member after it had
\* saved the bundle port
C12_WitnessBundle ==
    /\ last.op = "CreateBundle" /\ last.commit /\ last.raised = "CancelScript"
    /\ last.added.ifaces = 1

\* a ConfigurePNI asked to commit was cancelled at the second address
\* after it had created a VLAN, a sub-port and the first address
C12_WitnessConfigure ==
    /\ last.op = "ConfigurePNI" /\ last.commit /\ last.raised = "CancelScript"
    /\ last.added.vlans = 1 /\ last.added.ifaces = 1 /\ last.added.ips = 1

\* C13: a CreateBundle started when every name bond0 .. bond<LastBond> is
\* taken on the device is cancelled and has saved no port, and no device
\* has two ports with the last bundle name.
C13_ExhaustedNamesCancel ==
    /\ (last.op = "CreateBundle" /\ last.info.exhausted)
          => (last.raised = "CancelScript" /\ last.added.ifaces = 0)
    /\ \A d \in Devices :
          Cardinality({k \in DOMAIN ifaces :
                          /\ ifaces[k].device = d
                          /\ ifaces[k].name = BondName(LastBond)}) <= 1

\* a committed CreateBundle has left a second port with the last bundle name
C13_SecondLastBond ==
    /\ last.op = "CreateBundle" /\ last.committed /\ last.info.exhausted
    /\ Cardinality({k \in DOMAIN ifaces :
                       ifaces[k].device = 1 /\ ifaces[k].name = BondName(LastBond)}) = 2

\* the sub-ports of port P for VLAN id vid
SubPortsOf(P, vid) ==
    {k \in DOMAIN ifaces :
        ifaces[k].parent = P /\ ifaces[k].name = Append(ifaces[P].name, vid)}

\* C14: where a port has a sub-port for a VLAN id, resolving the sub-port
\* for that port and id again gives that sub-port and writes nothing; a
\* port has at most one sub-port per VLAN id and a site at most one VLAN
\* object per VLAN id.
C14_SubPortResolvedOnce ==
    /\ \A P \in DOMAIN ifaces : \A k \in SubPortsOf(P, 100) :
          ResolveSubPort(Store, P, 100) = [S |-> Store, interface |-> k, created |-> FALSE]
    /\ \A P \in DOMAIN ifaces : Cardinality(SubPortsOf(P, 100)) <= 1
    /\ \A k, l \in DOMAIN vlans : vlans[k] = vlans[l] => k = l

\* a committed ConfigurePNI went to a sub-port that an earlier ConfigurePNI
\* had created and given addresses, and created neither port nor VLAN
C14_Witness ==
    /\ last.op = "ConfigurePNI" /\ last.committed /\ last.prevOp = "ConfigurePNI"
    /\ last.info.target \in DOMAIN ifaces
    /\ \E P \in DOMAIN ifaces : last.info.target \in SubPortsOf(P, 100)
    /\ last.info.targetHad > 0
    /\ last.added.ifaces = 0 /\ last.added.vlans = 0

QinQ == "Cannot assign a VLAN to interface"

\* C15: ConfigurePNI with a VLAN id on a port in access mode is cancelled
\* with the message for Q-in-Q, and after a run cancelled so the store has
\* no new VLAN object, no new port and no new tag.
C15_AccessPortVlanCancelled ==
    [][/\ \A i \in {j \in DOMAIN ifaces : ifaces[j].mode = "access"} :
             \A commit \in BOOLEAN :
                 LET r == ConfigurePNI(Store, VlanCall(i, 100, 202), commit)
                 IN  r.exc = "CancelScript" /\ r.msg = QinQ
       /\ (last'.op = "ConfigurePNI" /\ last'.msg = QinQ)
             => /\ last'.raised = "CancelScript"
                /\ vlans' = vlans /\ ifaces' = ifaces /\ tags' = tags
      ]_vars

\* a ConfigurePNI asked to commit was cancelled for Q-in-Q after it had
\* created tags, and the tag 'pni:configured' does not exist
C15_Witness ==
    /\ last.op = "ConfigurePNI" /\ last.commit /\ last.raised = "CancelScript"
    /\ last.msg = QinQ
    /\ last.added.tags > 0
    /\ PNIConfiguredTag \notin Range(tags)

DuplicateCircuit == "Circuit already exists"

\* C16: no two circuits have the same circuit id; CreatePNI with the id of
\* an existing circuit is cancelled; and after a run cancelled for the
\* duplicate id the store has no new provider, provider network, circuit,
\* termination or cable, and the interfaces are as they were.
C16_CircuitIdsUnique ==
    [][/\ \A k, l \in DOMAIN circuits : circuits[k].cid = circuits[l].cid => k = l
       /\ \A k \in DOMAIN circuits, interface \in Physical(Store),
             peer \in PeerChoices(Store) :
             CreatePNI(Store, PNICall(interface, peer, circuits[k].cid), TRUE).exc
                 = "CancelScript"
       /\ (last'.op = "CreatePNI" /\ last'.msg = DuplicateCircuit)
             => /\ last'.raised = "CancelScript"
                /\ UNCHANGED <<providers, networks, circuits, terms, cables>>
                /\ UNCHANGED <<ifaces, tags>>
      ]_vars

\* a CreatePNI for eth1 asked to commit was cancelled for the duplicate id
\* after it had created a provider network; eth1 is neither described nor
\* wired
C16_Witness ==
    /\ last.op = "CreatePNI" /\ last.commit /\ last.msg = DuplicateCircuit
    /\ last.info.target = 1 /\ last.added.networks = 1
    /\ ifaces[1].descr = NoDescr /\ ifaces[1].cable = 0
    /\ PNICircuitTag \notin ifaces[1].tags

----------------------------------------------------------------------------
(* Properties of the tag helpers and of the prefix parameters.             *)

\* C17: no two tags of the store have the same name.
C17_TagNamesUnique ==
    \A i, j \in DOMAIN tags : tags[i] = tags[j] => i = j

\* make_semantic_tag found the tag it was asked for, in a store in which a
\* Generate has created 'new_ip' or found it, and created 'prune'
C17_Witness ==
    /\ last.op = "make_semantic_tag" /\ last.added.tags = 0
    /\ {new_ip, prune, PNICircuitTag} \subseteq Range(tags)

\* C18: the three forms of a prefix parameter resolve to the same block; a
\* Generate that gets past the resolution of its parameters allocates from
\* an IPv4 block for ipv4_prefix and an IPv6 block for ipv6_prefix; and the
\* resolution never ends in a fault.
C18_PrefixResolution ==
    /\ \A b \in BOOLEAN :
          /\ get_ips(Store, PrefixInt(1), 4, b) = get_ips(Store, PrefixObj(1), 4, b)
          /\ get_ips(Store, PrefixStr("10.0.0.0/24"), 4, b)
                = get_ips(Store, PrefixObj(1), 4, b)
    /\ last.op = "Generate" =>
          /\ last.info.started => (last.info.fam4 = 4 /\ last.info.fam6 = 6)
          /\ last.raised \notin {"NameError", "AssertionError"}

\* a committed Generate gave its ports addresses of the IPv6 block as their
\* IPv4 addresses
C18_WrongFamilyAllocated ==
    /\ last.op = "Generate" /\ last.committed /\ last.info.fam4 = 6
    /\ last.info.processed # <<>>

\* a Generate called with the id of no block ended in NameError
C18_UnknownIdFaults ==
    /\ last.op = "Generate" /\ last.raised = "NameError" /\ last.errored

\* the ports that carry 'renumber' and a PTP role tag and are linked to a
\* peer that carries 'renumber' and no PTP role tag
EligibleWithRolelessPeer ==
    {A \in DOMAIN ifaces :
        /\ renumber \in ifaces[A].tags
        /\ ifaces[A].tags \cap {l2ptp, l3ptp} # {}
        /\ ifaces[A].peer # 0
        /\ renumber \in ifaces[ifaces[A].peer].tags
        /\ ifaces[ifaces[A].peer].tags \cap {l2ptp, l3ptp} = {}}

\* C19: a Generate whose loop ran to its end has renumbered every port
\* that carries 'renumber' and a PTP role tag and whose peer carries
\* 'renumber' but no PTP role tag, wherever the peer is in the scan order.
C19_SkippedOnlyIfProcessed ==
    [][(last'.op = "Generate" /\ last'.info.scanned) =>
          \A A \in EligibleWithRolelessPeer :
             \E n \in DOMAIN last'.info.processed : last'.info.processed[n].primary = A
      ]_vars

\* the same port is renumbered when it is scanned before its peer
C19_ProcessedWhenScannedFirst ==
    /\ last.op = "Generate" /\ last.committed
    /\ \E n \in DOMAIN last.info.processed :
          /\ last.info.processed[n].primary = 1
          /\ last.info.processed[n].peer = 2
          /\ ifaces[2].tags \cap {l2ptp, l3ptp} = {}

----------------------------------------------------------------------------
(* Properties of the address records under Generate and Prune.             *)

\* what identifies an address row: the address and the port it is bound to
AddrKey(r) == [fam |-> r.fam, val |-> r.val, hb |-> r.hb, port |-> r.port]

\* C20: an operation other than Prune leaves every address row in place,
\* with its address and its port; a committed Generate has tagged 'prune'
\* every row that was bound to a port of a pair it processed; and Prune
\* deletes no row that does not carry 'prune'.
C20_OnlyPruneDeletes ==
    [][/\ last'.op # "Prune" =>
             \A k \in DOMAIN ips :
                k \in DOMAIN ips' /\ AddrKey(ips'[k]) = AddrKey(ips[k])
       /\ (last'.op = "Generate" /\ last'.committed) =>
             \A n \in DOMAIN last'.info.processed : \A k \in DOMAIN ips :
                ips[k].port \in {last'.info.processed[n].primary,
                                 last'.info.processed[n].peer}
                    => prune \in ips'[k].tags
       /\ last'.op = "Prune" =>
             \A k \in DOMAIN ips :
                prune \notin ips[k].tags =>
                    Cardinality({j \in DOMAIN ips' : AddrKey(ips'[j]) = AddrKey(ips[k])})
                      >= Cardinality({j \in DOMAIN ips :
                                         /\ AddrKey(ips[j]) = AddrKey(ips[k])
                                         /\ prune \notin ips[j].tags})
      ]_vars

\* a committed Generate has processed a pair, and an address that its
\* primary port had before is still bound to that port and carries 'prune'
C20_Witness ==
    /\ last.op = "Generate" /\ last.committed /\ last.info.processed # <<>>
    /\ \E k \in DOMAIN ips :
          /\ ips[k].port = last.info.processed[1].primary
          /\ prune \in ips[k].tags /\ new_ip \notin ips[k].tags

\* a committed Prune has deleted rows, and rows without 'prune' are left
C20_WitnessPrune ==
    /\ last.op = "Prune" /\ last.committed /\ last.info.deleted # <<>>
    /\ ips # <<>>

\* the rows of table t bound to port p that do not carry 'prune'
Replacements(t, p) == {k \in DOMAIN t : t[k].port = p /\ prune \notin t[k].tags}

\* C21: every address row that carries 'prune' is bound to a port that
\* also has a row without 'prune'; and a Prune leaves no port that had
\* address rows without any.
C21_PruneAfterReplacement ==
    [][/\ \A k \in DOMAIN ips :
             (prune \in ips[k].tags /\ ips[k].port # 0)
                 => Replacements(ips, ips[k].port) # {}
       /\ last'.op = "Prune" =>
             \A k \in DOMAIN ips :
                ips[k].port # 0 => \E j \in DOMAIN ips' : ips'[j].port = ips[k].port
      ]_vars

\* a committed Prune after a committed Generate has deleted rows of a port,
\* and the port has its replacement rows
C21_Witness ==
    /\ last.op = "Prune" /\ last.committed /\ last.prevOp = "Generate"
    /\ last.info.deleted # <<>>
    /\ \E p \in DOMAIN ifaces :
          /\ Cardinality(Replacements(ips, p)) >= 2
          /\ \A k \in DOMAIN ips : ips[k].port = p => prune \notin ips[k].tags

\* C22: no address is bound to two ports at once.
C22_NoAddressOnTwoPorts ==
    \A j, k \in DOMAIN ips :
        (/\ ips[j].port # 0 /\ ips[k].port # 0
         /\ ips[j].fam = ips[k].fam /\ ips[j].val = ips[k].val)
            => ips[j].port = ips[k].port

\* a CreateBundle call with none of the two options
PlainBundle(interfaces) ==
    [device |-> 1, interfaces |-> interfaces, layer3_4 |-> FALSE,
     lacp_slow |-> FALSE, unique |-> TRUE]

\* the outcome of a committing CreateBundle for every list of ports of which
\* one has addresses or is in a bundle, and of a committing CreatePNI for
\* every wired port, is among the outcomes given
Rejected(outcomes) ==
    /\ \A ms \in MemberLists(Store) :
          (\E k \in DOMAIN ms : \/ IpRowsOf(Store, ms[k]) # {}
                                \/ ifaces[ms[k]].lag # 0)
              => CreateBundle(Store, PlainBundle(ms), TRUE).exc \in outcomes
    /\ \A i \in Physical(Store) :
          HasLinkPeers(Store, i)
              => CreatePNI(Store,
                           PNICall(i, [provider |-> "", peer_name |-> "PeerA"],
                                   "CID1"),
                           TRUE).msg = "Interface is already wired"

\* C23: CreateBundle with a port that has addresses or is in a bundle is
\* cancelled, and CreatePNI for a wired port is cancelled; a port has at
\* most one cable; and a port's bundle and cable, once set, stay.
C23_MembershipPreconditions ==
    /\ [](/\ Rejected({"CancelScript"})
          /\ \A j, k \in DOMAIN cables : cables[j].iface = cables[k].iface => j = k)
    /\ [][\A i \in DOMAIN ifaces :
             /\ ifaces[i].lag # 0 => ifaces'[i].lag = ifaces[i].lag
             /\ ifaces[i].cable # 0 => ifaces'[i].cable = ifaces[i].cable
         ]_vars

\* the same, with the fault of a CreateBundle that finds every bundle
\* name taken counted as a rejection
C23_RejectedOrFaulted ==
    /\ [](/\ Rejected({"CancelScript", "IntegrityError"})
          /\ \A j, k \in DOMAIN cables : cables[j].iface = cables[k].iface => j = k)
    /\ [][\A i \in DOMAIN ifaces :
             /\ ifaces[i].lag # 0 => ifaces'[i].lag = ifaces[i].lag
             /\ ifaces[i].cable # 0 => ifaces'[i].cable = ifaces[i].cable
         ]_vars

\* a CreateBundle asked to commit was cancelled because a port given to it
\* was in a bundle
C23_Witness ==
    /\ last.op = "CreateBundle" /\ last.commit /\ last.raised = "CancelScript"
    /\ last.msg = "Interface already assigned to a LAG"
    /\ \E i \in Physical(Store) : ifaces[i].lag # 0

\* a CreateBundle asked to commit was cancelled because a port given to it
\* had addresses
C23_WitnessAddressed ==
    /\ last.op = "CreateBundle" /\ last.commit /\ last.raised = "CancelScript"
    /\ last.msg = "Interface already has IPs assigned to it"

\* a CreatePNI asked to commit was cancelled because its port was wired
C23_WitnessWired ==
    /\ last.op = "CreatePNI" /\ last.commit /\ last.raised = "CancelScript"
    /\ last.msg = "Interface is already wired"

\* the network a CreatePNI finds or creates for the provider named p
NetworkOf(p) == [provider |-> p, name |-> <<p, "Network">>]

\* C24: no two providers have the same name and no two provider networks
\* the same provider and name; a CreatePNI that returns reports the provider
\* "found" exactly when a provider of that name was there and "created"
\* otherwise, and the same for its network; a committed one adds exactly
\* the provider and the network it reports as created.
C24_OneProviderPerName ==
    [][/\ \A k, l \in DOMAIN providers' : providers'[k] = providers'[l] => k = l
       /\ \A k, l \in DOMAIN networks' : networks'[k] = networks'[l] => k = l
       /\ (last'.op = "CreatePNI" /\ last'.raised = "none")
             => LET p == last'.output.d.out.provider
                    hadProvider == p.name \in Range(providers)
                    hadNetwork == NetworkOf(p.name) \in Range(networks)
                IN  /\ p.action = IF hadProvider THEN "found" ELSE "created"
                    /\ p.network = IF hadNetwork THEN "found" ELSE "created"
                    /\ last'.commit =>
                          /\ providers' = IF hadProvider THEN providers
                                          ELSE Append(providers, p.name)
                          /\ networks' = IF hadNetwork THEN networks
                                         ELSE Append(networks, NetworkOf(p.name))
      ]_vars

\* a committed CreatePNI has found the provider and its network: the
\* second circuit goes to the one provider of the store
C24_Witness ==
    /\ last.op = "CreatePNI" /\ last.committed
    /\ last.output.d.out.provider.action = "found"
    /\ last.output.d.out.provider.network = "found"
    /\ Len(circuits) = 2 /\ Len(providers) = 1 /\ Len(networks) = 1

\* a committed CreatePNI has created a provider and its network
C24_WitnessCreated ==
    /\ last.op = "CreatePNI" /\ last.committed
    /\ last.output.d.out.provider.action = "created"
    /\ last.output.d.out.provider.network = "created"
    /\ Len(providers) = 2 /\ Len(networks) = 2

\* C25: a ConfigurePNI with VLAN id 100 that returns has described,
\* labelled and given addresses to a port on the device of its target that
\* has the target as parent.
C25_SubPortOnOwnDevice ==
    \A t \in DOMAIN ifaces, addrs \in AddrChoices :
        LET r == ConfigurePNI(Store,
                              [byName |-> FALSE, iface |-> t, device |-> 0,
                               ifname |-> <<>>, vlan_id |-> 100, peer_asn |-> 65001,
                               virtual_circuit_id |-> "",
                               autogen_ips |-> addrs.autogen_ips,
                               my_ipv4 |-> addrs.my_ipv4, my_ipv6 |-> addrs.my_ipv6],
                              TRUE)
        IN  r.exc = "none"
                => /\ r.S.ifaces[r.info.target].device = ifaces[t].device
                   /\ r.S.ifaces[r.info.target].parent = t

\* a committed ConfigurePNI for a port of device 1 has described a port of
\* device 2 and bound its two addresses to it
C25_ForeignPortConfigured ==
    /\ last.op = "ConfigurePNI" /\ last.committed
    /\ last.output.d.out.device = 1
    /\ ifaces[last.info.target].device = 2
    /\ ifaces[last.info.target].descr.kind = "pni"
    /\ Cardinality(IpRowsOf(Store, last.info.target)) = last.info.targetHad + 2

\* the PTP role labels among a set of labels
RoleLabels(tagset) == tagset \cap {l2ptp, l3ptp}

\* C26: an address that carries new_ip and is bound to a port that has a
\* PTP role label carries that role label and no other.
C26_NewAddressHasPortRole ==
    \A k \in DOMAIN ips :
        (/\ new_ip \in ips[k].tags /\ ips[k].port # 0
         /\ RoleLabels(ifaces[ips[k].port].tags) # {})
            => RoleLabels(ips[k].tags) = RoleLabels(ifaces[ips[k].port].tags)

\* a committed Generate has given the l3ptp peer of an l2ptp port addresses
\* labelled l2ptp
C26_PeerGivenPrimaryRole ==
    /\ last.op = "Generate" /\ last.committed
    /\ l2ptp \in ifaces[1].tags /\ l3ptp \in ifaces[2].tags
    /\ \E k \in DOMAIN ips : /\ ips[k].port = 2
                             /\ ips[k].tags = {l2ptp, new_ip}

\* C27: parse_semantic_tags of the tag make_semantic_tag(k, v) returned
\* is the dict {k: v}, and parse_semantic_tags of a tag whose name has no
\* delimiter is the empty dict.
C27_SemanticRoundTrip ==
    /\ last.op = "make_semantic_tag"
          => last.output.d.parsed = [key \in {last.output.d.k} |-> last.output.d.v]
    /\ (last.op = "lazy_load_tag" /\ DELIMITER \notin Range(last.output.d.name))
          => DOMAIN last.output.d.parsed = {}

\* the same for the values that have no delimiter in them
C27_RoundTripPlainValue ==
    /\ (last.op = "make_semantic_tag" /\ DELIMITER \notin Range(last.output.d.v))
          => last.output.d.parsed = [key \in {last.output.d.k} |-> last.output.d.v]
    /\ (last.op = "lazy_load_tag" /\ DELIMITER \notin Range(last.output.d.name))
          => DOMAIN last.output.d.parsed = {}

\* the tag pni:vcid=a=b was made and parsed: the value is cut at its
\* delimiter
C27_ValueCut ==
    /\ last.op = "make_semantic_tag"
    /\ last.output.d.v = <<"a", DELIMITER, "b">>
    /\ last.output.d.parsed[last.output.d.k] = <<"a">>

\* C28: whatever the interleaving of concurrent lazy_load_tag calls, no two
\* tags of the store have the same name.
C28_NoDuplicateUnderRace ==
    \A i, j \in DOMAIN tags : tags[i] = tags[j] => i = j

\* two callers have both found no tag pni:circuit, and one of them has
\* saved it
C28_BothLookedBeforeInsert ==
    /\ callers[1] = Caller("missing", PNICircuitTag)
    /\ callers[2] = Caller("returned", PNICircuitTag)
    /\ TagRows(Store, PNICircuitTag) # {}

\* where the database refuses the second row, the second caller is left
\* by IntegrityError
C28_SecondCallerFaults ==
    /\ callers[1] = Caller("faulted", PNICircuitTag)
    /\ callers[2] = Caller("returned", PNICircuitTag)
    /\ Cardinality(TagRows(Store, PNICircuitTag)) = 1

\* a call that began after the tag was saved finds it: no tag is saved by
\* a caller whose query saw one
C28_SequentialCallsFind ==
    [][\A p \in Callers :
          (callers[p].pc = "idle" /\ callers'[p].pc = "missing")
              => TagRows(Store, callers'[p].name) = {}]_vars

OutOfRange == "vlan_id must be an integer between 1 and 4094"

\* a ConfigurePNI asked to commit, for port t with VLAN id vlan_id and the
\* local addresses supplied, treats the id as the claim says: in 1 .. 4094
\* it is not refused as out of range, outside it the run is cancelled as
\* out of range with no VLAN and no port created
VlanIdValidated(t, vlan_id) ==
    LET r == ConfigurePNI(Store,
                          [byName |-> FALSE, iface |-> t, device |-> 0,
                           ifname |-> <<>>, vlan_id |-> vlan_id, peer_asn |-> 65001,
                           virtual_circuit_id |-> "", autogen_ips |-> FALSE,
                           my_ipv4 |-> [fam |-> 4, val |-> 200, hb |-> 1],
                           my_ipv6 |-> [fam |-> 6, val |-> 200, hb |-> 1]],
                          TRUE)
    IN  IF vlan_id \in 1 .. 4094 THEN r.msg # OutOfRange
        ELSE /\ r.exc = "CancelScript" /\ r.msg = OutOfRange
             /\ r.S.vlans = vlans /\ r.S.ifaces = ifaces

\* C29: ConfigurePNI accepts a supplied VLAN id exactly when it is in
\* 1 .. 4094; any other id supplied, 0 and 4095 .. 4097 among them, cancels
\* the run before a VLAN or a sub-port is created.
C29_VlanIdValidated ==
    \A t \in DOMAIN ifaces, vlan_id \in {-2, 0, 1, 4094, 4095, 4096, 4097, 4098} :
        VlanIdValidated(t, vlan_id)

\* the same for every id but 0
C29_NonZeroIdValidated ==
    \A t \in DOMAIN ifaces, vlan_id \in {-2, 1, 4094, 4095, 4096, 4097, 4098} :
        VlanIdValidated(t, vlan_id)

\* a ConfigurePNI asked to commit for the wired port eth1 with VLAN id 0
\* returns with the port itself described and no sub-port created
C29_ZeroIsNoVlan ==
    LET r == ConfigurePNI(Store,
                          [byName |-> FALSE, iface |-> 1, device |-> 0,
                           ifname |-> <<>>, vlan_id |-> 0, peer_asn |-> 65001,
                           virtual_circuit_id |-> "", autogen_ips |-> FALSE,
                           my_ipv4 |-> [fam |-> 4, val |-> 200, hb |-> 1],
                           my_ipv6 |-> [fam |-> 6, val |-> 200, hb |-> 1]],
                          TRUE)
    IN  /\ r.exc = "none" /\ r.info.target = 1
        /\ Len(r.S.ifaces) = Len(ifaces)
        /\ r.S.ifaces[1].descr.kind = "pni"

====
